---- MODULE Spec2Model ----
(***************************************************************************)
(* A model of the PayTracker transaction extractor: the identifier repair *)
(* engine and page extractor (lib/transactionScraper), the two-tier        *)
(* TransactionCache (lib/storage), and the popup / detached-window page    *)
(* with its sync and instance-liveness protocol.                           *)
(*                                                                         *)
(* Strings are sequences of one-character strings, so that the regular    *)
(* expressions, the JSON serialisation and the run-length transform are    *)
(* computed character by character as the code computes them.              *)
(***************************************************************************)
EXTENDS Integers, Sequences, FiniteSets, TLC

VARIABLES
    cin,        \* compress harness: the string handed to compress
    cout,       \* compress harness: <<compressed, decompressed>> once applied
    cpc,        \* compress harness: "idle" | "ready" | "done"
    rawId,      \* repair harness: the raw text handed to fixCorruptedTransactionId
    fixedId,    \* repair harness: its result, Null or Some(id)
    rpc,        \* repair harness: "idle" | "ready" | "done"
    page,       \* extraction harness: the containers of the page, in document order
    extracted,  \* extraction harness: the Transaction list returned
    xpc,        \* extraction harness: "idle" | "ready" | "done"
    clock,      \* the clock: Date.now() is TimeHigh * 10^9 + clock
    chromeStorage, \* chrome.storage.local, the keys of the cache: key -> Stored
    memoryCache, \* the memory tier of the store instance of each surface
    cacheOptions, \* the StorageOptions the store instances were constructed with
    steps,      \* the steps of the cache scenario taken so far
    last,       \* the set or get a store has just completed, with its outcome
    windows,    \* the extension windows ever opened: id -> Window
    syncStorage, \* chrome.storage.local: lastSyncMode, lastSyncTime, <mode>ModeData
    instanceMarkers, \* chrome.storage.local: instance_<type> and instanceTime_<type>
    localSettings, \* localStorage of the extension: privacyMode, cloverMode
    ceded,      \* history: the state the last surface to cede control held
    edits,      \* the changes of search term and toggles made so far
    tabList,    \* the tabs of the browser, as chrome.tabs.query({}) lists them
    pane,       \* the surface that extracts: mode, loading, error, transactions, ...
    calls,      \* the refresh calls of the surface that await their extraction
    injected,   \* history: the tab ids handed to chrome.scripting.executeScript
    resolved,   \* history: the last tab resolution of extractTransactionData
    shown,      \* history: the error message shown for each cause of failure
    scraped,    \* history: the lists extracted, each with the url of its page
    faulty,     \* history: the last store operation run with failing calls
    uin,        \* utility harness: the arguments of the call
    uout,       \* utility harness: what the call returned
    upc,        \* utility harness: "idle" | "ready" | "done"
    timeNow,    \* timer harness: the milliseconds passed
    timers,     \* timer harness: the timers set and neither run nor cleared
    timeout,    \* debounce: the timer of the last call (Null before the first)
    inThrottle, \* throttle: whether a window is open
    wait,       \* debounce: the wait of the debounced function
    limitMs,    \* throttle: the limit of the throttled function
    made,       \* history: the calls of the debounced or throttled function
    ran         \* history: the invocations of the function wrapped

varsCompress == <<cin, cout, cpc>>
varsRepair == <<rawId, fixedId, rpc>>
varsExtract == <<page, extracted, xpc>>
varsCache == <<clock, chromeStorage, memoryCache, cacheOptions, steps, last>>
varsPage == <<windows, syncStorage, instanceMarkers, localSettings, ceded, edits>>
varsRequest == <<tabList, pane, calls, injected, resolved, shown, scraped>>
varsFault == <<faulty>>
varsUtil == <<uin, uout, upc>>
varsPerf == <<timeNow, timers, timeout, inThrottle, wait, limitMs, made, ran>>
vars == <<cin, cout, cpc, rawId, fixedId, rpc, page, extracted, xpc,
          clock, chromeStorage, memoryCache, cacheOptions, steps, last,
          windows, syncStorage, instanceMarkers, localSettings, ceded, edits,
          tabList, pane, calls, injected, resolved, shown, scraped, faulty, uin, uout, upc,
          timeNow, timers, timeout, inThrottle, wait, limitMs, made, ran>>

\* What each harness leaves alone.
notCompress == <<varsRepair, varsExtract, varsCache, varsPage, varsRequest, varsFault, varsUtil, varsPerf>>
notRepair == <<varsCompress, varsExtract, varsCache, varsPage, varsRequest, varsFault, varsUtil, varsPerf>>
notExtract == <<varsCompress, varsRepair, varsCache, varsPage, varsRequest, varsFault, varsUtil, varsPerf>>
notCache == <<varsCompress, varsRepair, varsExtract, varsPage, varsRequest, varsFault, varsUtil, varsPerf>>

\* The harnesses at rest.
CompressIdle ==
    /\ cin = <<>>
    /\ cout = <<>>
    /\ cpc = "idle"

RepairIdle ==
    /\ rawId = <<>>
    /\ fixedId = <<>>
    /\ rpc = "idle"

ExtractIdle ==
    /\ page = <<>>
    /\ extracted = <<>>
    /\ xpc = "idle"

----------------------------------------------------------------------------
(* Characters and strings *)

DigitChars == <<"0","1","2","3","4","5","6","7","8","9">>
UpperChars == <<"A","B","C","D","E","F","G","H","I","J","K","L","M",
                "N","O","P","Q","R","S","T","U","V","W","X","Y","Z">>
LowerChars == <<"a","b","c","d","e","f","g","h","i","j","k","l","m",
                "n","o","p","q","r","s","t","u","v","w","x","y","z">>

SeqToSet(s) == {s[i] : i \in 1..Len(s)}
Digit == SeqToSet(DigitChars)
Upper == SeqToSet(UpperChars)
Lower == SeqToSet(LowerChars)

IndexOf(c, tbl) == CHOOSE i \in 1..Len(tbl) : tbl[i] = c
DigitVal(c) == IndexOf(c, DigitChars) - 1

Min(a, b) == IF a < b THEN a ELSE b

\* The first of a non-empty set of positions.
MinOf(S) == CHOOSE i \in S : \A j \in S : i <= j
Max(a, b) == IF a > b THEN a ELSE b

\* String.prototype.repeat: count copies of the one-character string c.
RECURSIVE Repeat(_, _)
Repeat(c, n) == IF n <= 0 THEN <<>> ELSE <<c>> \o Repeat(c, n - 1)

\* s.slice(i - 1, j): the characters at 1-based positions i..j.
Slice(s, i, j) == IF j < i THEN <<>> ELSE SubSeq(s, i, j)

\* s.startsWith(p) from 1-based position i.
MatchAt(s, i, p) ==
    /\ i + Len(p) - 1 <= Len(s)
    /\ \A k \in 1..Len(p) : s[i + k - 1] = p[k]

StartsWith(s, p) == MatchAt(s, 1, p)
Includes(s, p) == \E i \in 1..(Len(s) + 1) : MatchAt(s, i, p)

\* Number.prototype.toString() of a non-negative integer.
RECURSIVE NatToStr(_)
NatToStr(n) ==
    IF n < 10 THEN <<DigitChars[n + 1]>>
    ELSE NatToStr(n \div 10) \o <<DigitChars[(n % 10) + 1]>>

\* Length of the run of characters equal to s[i] that starts at position i.
RECURSIVE RunLen(_, _)
RunLen(s, i) ==
    IF i < Len(s) /\ s[i + 1] = s[i] THEN 1 + RunLen(s, i + 1) ELSE 1

\* Length of the maximal run of digits that starts at position i (0 if none).
RECURSIVE DigitRun(_, _)
DigitRun(s, i) ==
    IF i <= Len(s) /\ s[i] \in Digit THEN 1 + DigitRun(s, i + 1) ELSE 0

----------------------------------------------------------------------------
(* TransactionCache.compress / decompress  (lib/storage) *)

\* The run length above which compress rewrites a run: match.length > 3.
CompressMinRun == 3

\* The longest string the engine builds; String.prototype.repeat throws a
\* RangeError beyond it.
StringMaxLength == 2^29 - 24

\* Longest run of one character the model materialises; a longer expansion
\* is cut to this length (it is longer than any run or number a serialised
\* entry holds, so the cut text differs from every original text and a cut
\* digit run still reads as a number of more than 13 digits).
RepeatCap == 16

\* data.replace(/(.)\1+/g, ...) with enableCompression set: every maximal run
\* of two or more equal characters is matched; a run longer than 3 becomes
\* char + length + char, a shorter one is kept.
\* The starts, at or after position i, of the maximal runs longer than
\* CompressMinRun.
LongRunStarts(s, i) ==
    {k \in i..(Len(s) - CompressMinRun) :
        /\ (k = 1 \/ s[k - 1] # s[k])
        /\ \A d \in 1..CompressMinRun : s[k + d] = s[k]}

RECURSIVE CompressFrom(_, _)
CompressFrom(s, i) ==
    LET starts == LongRunStarts(s, i)
    IN  IF starts = {} THEN Slice(s, i, Len(s))
        ELSE LET k == MinOf(starts)
                 n == RunLen(s, k)
             IN  Slice(s, i, k - 1) \o <<s[k]>> \o NatToStr(n) \o <<s[k]>>
                     \o CompressFrom(s, k + n)

compress(enableCompression, data) ==
    IF ~enableCompression THEN data ELSE CompressFrom(data, 1)

\* parseInt of a digit string, saturated at StringMaxLength + 1 (only the
\* comparison with StringMaxLength and the values up to RepeatCap matter).
RECURSIVE ParseCount(_, _)
ParseCount(d, acc) ==
    IF d = <<>> THEN acc
    ELSE IF acc > StringMaxLength \div 10 THEN StringMaxLength + 1
    ELSE ParseCount(Tail(d), Min(acc * 10 + DigitVal(Head(d)), StringMaxLength + 1))

\* The longest k in 1..m with s[i + 1 + k] = s[i]: \d+ is greedy and gives
\* digits back until \1 matches. 0 when /(.)\d+\1/ does not match at i.
RECURSIVE BackrefAt(_, _, _)
BackrefAt(s, i, k) ==
    IF k < 1 THEN 0
    ELSE IF i + 1 + k <= Len(s) /\ s[i + 1 + k] = s[i] THEN k
    ELSE BackrefAt(s, i, k - 1)

\* data.replace(/(.)\d+\1/g, ...): each match char digits char becomes char
\* repeated parseInt(digits) times. The result is a record: thrown is TRUE
\* when char.repeat(count) raises RangeError (count beyond StringMaxLength).
RECURSIVE DecompressFrom(_, _)
DecompressFrom(s, i) ==
    LET starts == {j \in i..Len(s) : BackrefAt(s, j, DigitRun(s, j + 1)) > 0}
    IN  IF starts = {} THEN [thrown |-> FALSE, text |-> Slice(s, i, Len(s))]
        ELSE LET j == MinOf(starts)
                 k == BackrefAt(s, j, DigitRun(s, j + 1))
                 count == ParseCount(Slice(s, j + 1, j + k), 0)
                 r == DecompressFrom(s, j + k + 2)
             IN  [thrown |-> r.thrown \/ count > StringMaxLength,
                  text |-> Slice(s, i, j - 1) \o Repeat(s[j], Min(count, RepeatCap))
                               \o r.text]

decompress(enableCompression, data) ==
    IF ~enableCompression THEN [thrown |-> FALSE, text |-> data]
    ELSE DecompressFrom(data, 1)

----------------------------------------------------------------------------
(* fixCorruptedTransactionId  (lib/transactionScraper) *)

\* The printable ASCII characters in code order, from code 32 (space). The
\* grave accent (code 96) is written "GRAVE".
AsciiChars ==
    <<" ","!","\"","#","$","%","&","'","(",")","*","+",",","-",".","/">> \o
    DigitChars \o <<":",";","<","=",">","?","@">> \o UpperChars \o
    <<"[","\\","]","^","_","GRAVE">> \o LowerChars \o <<"{","|","}","~">>

\* String.prototype.charCodeAt(0) and String.fromCharCode.
CharCode(c) == 31 + IndexOf(c, AsciiChars)
FromCharCode(n) == AsciiChars[n - 31]

\* An absent value (null / undefined) and a present one.
Null == <<>>
Some(v) == <<v>>

\* /^[A-Z0-9]+$/ without the length condition: every character in [A-Z0-9].
AllUpperAlnum(s) == \A i \in 1..Len(s) : s[i] \in Upper \cup Digit

\* /(.)\1{5,}/: some character occurs six or more times in a row.
HasLongRun(s) == \E i \in 1..Len(s) : RunLen(s, i) >= 6

\* An identifier length that is one short of the real one.
ShortIdLength == 13 - 1

\* The length of an identifier.
IdLength == 13

\* The fewest repetitions \2{10,} asks for after the captured character.
MinRepeats == 10

\* /^([A-Z0-9]{lo,hi})([A-Z0-9])\2{10,}([A-Z0-9]{slo,shi})$/ on s: the pairs
\* <<p, r>> of a prefix length and a repetition count for which the pattern
\* matches the whole string.
FloodSplits(s, lo, hi, slo, shi) ==
    {pr \in (lo..hi) \X (MinRepeats..Len(s)) :
        LET p == pr[1]
            r == pr[2]
        IN  /\ p + 1 + r <= Len(s)
            /\ \A k \in 1..r : s[p + 1 + k] = s[p + 1]
            /\ (Len(s) - (p + 1 + r)) \in slo..shi}

\* The match the regular expression engine reports: the prefix quantifier
\* is greedy and tried longest first, then the repetition count longest
\* first. Null when the pattern does not match.
FloodMatch(s, lo, hi, slo, shi) ==
    LET splits == IF AllUpperAlnum(s) THEN FloodSplits(s, lo, hi, slo, shi) ELSE {}
    IN  IF splits = {} THEN Null
        ELSE LET best == CHOOSE a \in splits :
                             \A b \in splits :
                                 \/ a[1] > b[1]
                                 \/ (a[1] = b[1] /\ a[2] >= b[2])
                 p == best[1]
                 r == best[2]
             IN  Some([prefix |-> Slice(s, 1, p),
                       repeatedChar |-> s[p + 1],
                       suffix |-> Slice(s, p + 2 + r, Len(s))])

\* The middle segments tried by the character-flooding strategy, in order.
commonMiddles == << <<"6","1","C">>, <<"5","5","6">>, <<"8","6">>,
                    <<"1","2","3">>, <<"0","0","1">>, <<"9","9","9">> >>

\* s.match(/[A-Z0-9]{13}/g): the successive non-overlapping matches.
RECURSIVE IdRunsFrom(_, _)
IdRunsFrom(s, i) ==
    IF i + IdLength - 1 > Len(s) THEN <<>>
    ELSE IF AllUpperAlnum(Slice(s, i, i + IdLength - 1))
         THEN <<Slice(s, i, i + IdLength - 1)>> \o IdRunsFrom(s, i + IdLength)
         ELSE IdRunsFrom(s, i + 1)

\* Pattern 1 without the test of the characters of the rebuilt text.
RepairUntested(raw) ==
    LET m == FloodMatch(raw, 3, 6, 3, 6)
    IN  IF m = Null THEN Null
        ELSE LET reconstructed == m[1].prefix
                                  \o <<FromCharCode(CharCode(m[1].repeatedChar) - 1)>>
                                  \o m[1].suffix
             IN  IF Len(reconstructed) = IdLength THEN Some(reconstructed) ELSE Null

\* Pattern 1: the repeated-character shape, with the special case and the
\* decrement of the repeated character.
RepairRepeated(raw) ==
    LET m == FloodMatch(raw, 3, 6, 3, 6)
    IN  IF m = Null THEN Null
        ELSE LET prefix == m[1].prefix
                 repeatedChar == m[1].repeatedChar
                 suffix == m[1].suffix
                 likelyChar == FromCharCode(CharCode(repeatedChar) - 1)
                 reconstructed == prefix \o <<likelyChar>> \o suffix
             IN  IF /\ repeatedChar = "6"
                    /\ prefix = <<"E","E","P","8">>
                    /\ suffix = <<"N","R","J","4","C">>
                 THEN Some(<<"E","E","P","8","6","5","5","6","N","R","J","4","C">>)
                 ELSE IF Len(reconstructed) = IdLength /\ AllUpperAlnum(reconstructed)
                      THEN Some(reconstructed)
                      ELSE Null

\* Pattern 2: character flooding, rebuilt from the first common middle of
\* the needed length.
RepairFlood(raw) ==
    LET m == FloodMatch(raw, 1, 3, 7, 10)
    IN  IF m = Null THEN Null
        ELSE LET prefix == m[1].prefix
                 suffix == m[1].suffix
                 neededLength == IdLength - Len(prefix) - Len(suffix)
                 fits == {i \in 1..Len(commonMiddles) :
                              Len(commonMiddles[i]) = neededLength}
             IN  IF fits = {} THEN Null
                 ELSE Some(prefix \o commonMiddles[MinOf(fits)] \o suffix)

\* Pattern 3: six or more leading zeros, replaced by "08".
RepairZeros(raw) ==
    LET zeros == IF raw[1] = "0" THEN RunLen(raw, 1) ELSE 0
        cleaned == <<"0","8">> \o Slice(raw, zeros + 1, Len(raw))
    IN  IF zeros >= 6 /\ Len(cleaned) = IdLength THEN Some(cleaned) ELSE Null

\* The scan with a global regular expression kept between the runs: its
\* lastIndex stands at the end of the text once a run has gone through, and
\* a later run finds nothing.
FirstValidRunKept(text) ==
    IF xpc = "done" THEN Null
    ELSE LET matches == IdRunsFrom(text, 1)
             valid == {i \in 1..Len(matches) : ~HasLongRun(matches[i])}
         IN  IF valid = {} THEN Null ELSE Some(matches[MinOf(valid)])

\* Pattern 4 (and the container-wide scan): the first 13-character
\* [A-Z0-9] match that holds no run of six equal characters.
FirstValidRun(text) ==
    LET matches == IdRunsFrom(text, 1)
        valid == {i \in 1..Len(matches) : ~HasLongRun(matches[i])}
    IN  IF valid = {} THEN Null ELSE Some(matches[MinOf(valid)])

fixCorruptedTransactionId(raw) ==
    IF Len(raw) < IdLength THEN Null
    ELSE IF RepairRepeated(raw) # Null THEN RepairRepeated(raw)
    ELSE IF RepairFlood(raw) # Null THEN RepairFlood(raw)
    ELSE IF RepairZeros(raw) # Null THEN RepairZeros(raw)
    ELSE FirstValidRun(raw)

----------------------------------------------------------------------------
(* extractTransactionDataFromPage  (lib/transactionScraper) *)

NoCustomer == <<"N","o"," ","c","u","s","t","o","m","e","r"," ","s","e","l","e","c","t","e","d">>
NotAvailable == <<"N","/","A">>

Whitespace == {" ", "\t", "\n"}

\* String.prototype.trim.
RECURSIVE TrimLeft(_)
TrimLeft(s) == IF s # <<>> /\ Head(s) \in Whitespace THEN TrimLeft(Tail(s)) ELSE s
RECURSIVE TrimRight(_)
TrimRight(s) ==
    IF s # <<>> /\ s[Len(s)] \in Whitespace THEN TrimRight(SubSeq(s, 1, Len(s) - 1)) ELSE s
Trim(s) == TrimRight(TrimLeft(s))

\* a || b for optional strings: the first that is present and not empty.
OrElse(a, b) == IF a # Null /\ a[1] # <<>> THEN a ELSE b

\* A container is the sequence of its nodes in document order. A node is
\*   [kind |-> "subtitle" | "amount" | "text", text |-> chars]   or
\*   [kind |-> "anchor", text |-> chars, href, innerText, dataId, id, value]
\* with the attributes and innerText optional (Null when absent).
RECURSIVE Concat(_)
Concat(seqs) == IF seqs = <<>> THEN <<>> ELSE Head(seqs) \o Concat(Tail(seqs))

\* Element.textContent of the container: the text of its nodes in order.
ContainerText(container) == Concat([i \in 1..Len(container) |-> container[i].text])

\* container.querySelectorAll(selector): the nodes of a kind, in order.
NodesOfKind(container, kind) == SelectSeq(container, LAMBDA n : n.kind = kind)

\* elements[i]?.textContent?.trim() without the || sentinel for a text that
\* trims to nothing.
TextOrEmpty(elements, i, sentinel) ==
    IF i <= Len(elements) THEN Trim(elements[i].text) ELSE sentinel

\* elements[i]?.textContent?.trim() || sentinel
TextOrSentinel(elements, i, sentinel) ==
    IF i <= Len(elements) /\ Trim(elements[i].text) # <<>>
    THEN Trim(elements[i].text)
    ELSE sentinel

\* Method 1: the first 13-character [A-Z0-9] run of the href attribute.
HrefId(anchor) ==
    LET href == IF anchor.href = Null THEN <<>> ELSE anchor.href[1]
        runs == IdRunsFrom(href, 1)
    IN  IF runs = <<>> THEN Null ELSE Some(runs[1])

\* Method 2: the texts the extraction methods return, in order: textContent,
\* innerText, the tree-walk concatenation of the text nodes, the attributes.
ExtractionTexts(anchor) ==
    << Some(Trim(anchor.text)),
       IF anchor.innerText = Null THEN Null ELSE Some(Trim(anchor.innerText[1])),
       Some(Trim(anchor.text)),
       OrElse(anchor.dataId, OrElse(anchor.id, anchor.value)) >>

\* What one extracted text yields when every text goes through the repair.
AlwaysRepaired(t) ==
    IF t = Null \/ t[1] = <<>> THEN Null ELSE fixCorruptedTransactionId(t[1])

\* What one extracted text yields: itself when it is a clean identifier,
\* else the repaired identifier, else Null.
IdFromText(t) ==
    IF t = Null \/ t[1] = <<>> THEN Null
    ELSE IF Len(t[1]) = IdLength /\ AllUpperAlnum(t[1]) THEN t
    ELSE fixCorruptedTransactionId(t[1])

TextMethodsId(anchor) ==
    LET ids == [i \in 1..4 |-> IdFromText(ExtractionTexts(anchor)[i])]
        found == {i \in 1..4 : ids[i] # Null}
    IN  IF found = {} THEN Null ELSE ids[MinOf(found)]

\* The identifier of a container: href, then the text methods, then the
\* container-wide scan; all three only when the anchor element exists.
TransactionIdOf(container) ==
    LET anchors == NodesOfKind(container, "anchor")
    IN  IF anchors = <<>> THEN NotAvailable
        ELSE LET a == anchors[1]
             IN  IF HrefId(a) # Null THEN HrefId(a)[1]
                 ELSE IF TextMethodsId(a) # Null THEN TextMethodsId(a)[1]
                 ELSE IF FirstValidRun(ContainerText(container)) # Null
                      THEN FirstValidRun(ContainerText(container))[1]
                      ELSE NotAvailable

ExtractContainer(container) ==
    LET customerElements == NodesOfKind(container, "subtitle")
    IN  [customer |-> TextOrSentinel(customerElements, 1, NoCustomer),
         date |-> TextOrSentinel(customerElements, 2, NotAvailable),
         amount |-> TextOrSentinel(NodesOfKind(container, "amount"), 1, NotAvailable),
         transactionId |-> TransactionIdOf(container)]

\* The records of the containers in reverse order.
ExtractReversed(containers) ==
    [i \in 1..Len(containers) |-> ExtractContainer(containers[Len(containers) + 1 - i])]

extractTransactionDataFromPage(containers) ==
    [i \in 1..Len(containers) |-> ExtractContainer(containers[i])]

----------------------------------------------------------------------------
(* JSON.stringify / JSON.parse, as far as cache entries need them.         *)
(* A JSON value is a record tagged by t:                                    *)
(*   [t |-> "str", s |-> chars]       a string                              *)
(*   [t |-> "num", s |-> digits]      a non-negative integer, by its digits *)
(*   [t |-> "arr", kids |-> values]   an array                              *)
(*   [t |-> "obj", kids |-> fields]   an object, fields [k |-> chars, v]    *)
(*   [t |-> "undef"]                  undefined (a missing property)        *)

JStr(s) == [t |-> "str", s |-> s]
JNum(d) == [t |-> "num", s |-> d]
JArr(items) == [t |-> "arr", kids |-> items]
JObj(fields) == [t |-> "obj", kids |-> fields]
JUndef == [t |-> "undef"]
Field(k, v) == [k |-> k, v |-> v]

\* The characters of a string literal: quotes and backslashes escaped.
RECURSIVE EscapeFrom(_, _)
EscapeFrom(s, i) ==
    LET special == {k \in i..Len(s) : s[k] \in {"\"", "\\"}}
    IN  IF special = {} THEN Slice(s, i, Len(s))
        ELSE LET k == MinOf(special)
             IN  Slice(s, i, k - 1) \o <<"\\", s[k]>> \o EscapeFrom(s, k + 1)

Escape(s) == EscapeFrom(s, 1)

Quoted(s) == <<"\"">> \o Escape(s) \o <<"\"">>

RECURSIVE JoinWith(_, _)
JoinWith(parts, sep) ==
    IF parts = <<>> THEN <<>>
    ELSE IF Len(parts) = 1 THEN parts[1]
    ELSE parts[1] \o sep \o JoinWith(Tail(parts), sep)

RECURSIVE Stringify(_)
Stringify(v) ==
    IF v.t = "str" THEN Quoted(v.s)
    ELSE IF v.t = "num" THEN v.s
    ELSE IF v.t = "arr"
         THEN <<"[">> \o JoinWith([i \in 1..Len(v.kids) |-> Stringify(v.kids[i])], <<",">>)
                      \o <<"]">>
    ELSE <<"{">> \o JoinWith([i \in 1..Len(v.kids) |->
                                 Quoted(v.kids[i].k) \o <<":">> \o Stringify(v.kids[i].v)],
                             <<",">>)
                 \o <<"}">>

\* The parser works on positions of the text s and returns
\* [ok, val, next]: whether a value was read, the value, the position after
\* it. A text that is not JSON makes JSON.parse throw a SyntaxError (ok is
\* FALSE). The texts are written without insignificant whitespace.
ParseFail == [ok |-> FALSE, val |-> JUndef, next |-> 0]
ParseOk(v, n) == [ok |-> TRUE, val |-> v, next |-> n]

\* The body of a string literal from position i (after the opening quote):
\* [ok, s, next], next being the position after the closing quote.
RECURSIVE ParseChars(_, _, _)
ParseChars(s, i, acc) ==
    LET special == {k \in i..Len(s) : s[k] \in {"\"", "\\"}}
    IN  IF special = {} THEN [ok |-> FALSE, s |-> <<>>, next |-> 0]
        ELSE LET k == MinOf(special)
                 plain == acc \o Slice(s, i, k - 1)
             IN  IF s[k] = "\"" THEN [ok |-> TRUE, s |-> plain, next |-> k + 1]
                 ELSE IF k + 1 <= Len(s) /\ s[k + 1] \in {"\"", "\\", "/"}
                      THEN ParseChars(s, k + 2, Append(plain, s[k + 1]))
                      ELSE [ok |-> FALSE, s |-> <<>>, next |-> 0]

\* A number: digits without a leading zero (a lone 0 is allowed).
NumberOfLength(s, i, n) ==
    IF n = 0 \/ (n > 1 /\ s[i] = "0")
    THEN ParseFail
    ELSE ParseOk(JNum(Slice(s, i, i + n - 1)), i + n)

ParseNumber(s, i) == NumberOfLength(s, i, DigitRun(s, i))

RECURSIVE ParseValue(_, _)
RECURSIVE ParseItems(_, _, _)
RECURSIVE ParseFields(_, _, _)
RECURSIVE ItemsAfter(_, _, _)
RECURSIVE FieldsAfterName(_, _, _)
RECURSIVE FieldsAfterValue(_, _, _, _)

\* The elements of an array from position i (after "[" or ","), acc being
\* the elements read so far.
ParseItems(s, i, acc) == ItemsAfter(s, ParseValue(s, i), acc)

\* The rest of an array after its element v: a comma and more, or "]".
ItemsAfter(s, v, acc) ==
    IF ~v.ok \/ v.next > Len(s) THEN ParseFail
    ELSE IF s[v.next] = "," THEN ParseItems(s, v.next + 1, Append(acc, v.val))
    ELSE IF s[v.next] = "]" THEN ParseOk(JArr(Append(acc, v.val)), v.next + 1)
    ELSE ParseFail

\* The members of an object from position i (after "{" or ",").
ParseFields(s, i, acc) ==
    IF i > Len(s) \/ s[i] # "\"" THEN ParseFail
    ELSE FieldsAfterName(s, ParseChars(s, i + 1, <<>>), acc)

\* The rest of an object after the name k of a member: ":" and its value.
FieldsAfterName(s, k, acc) ==
    IF ~k.ok \/ k.next > Len(s) \/ s[k.next] # ":" THEN ParseFail
    ELSE FieldsAfterValue(s, k, ParseValue(s, k.next + 1), acc)

\* The rest of an object after the member k: v, a comma and more, or "}".
FieldsAfterValue(s, k, v, acc) ==
    IF ~v.ok \/ v.next > Len(s) THEN ParseFail
    ELSE IF s[v.next] = ","
         THEN ParseFields(s, v.next + 1, Append(acc, Field(k.s, v.val)))
    ELSE IF s[v.next] = "}"
         THEN ParseOk(JObj(Append(acc, Field(k.s, v.val))), v.next + 1)
    ELSE ParseFail

ParseValue(s, i) ==
    IF i > Len(s) THEN ParseFail
    ELSE IF s[i] = "\""
         THEN LET r == ParseChars(s, i + 1, <<>>)
              IN  IF r.ok THEN ParseOk(JStr(r.s), r.next) ELSE ParseFail
    ELSE IF s[i] \in Digit THEN ParseNumber(s, i)
    ELSE IF s[i] = "["
         THEN IF i + 1 <= Len(s) /\ s[i + 1] = "]" THEN ParseOk(JArr(<<>>), i + 2)
              ELSE ParseItems(s, i + 1, <<>>)
    ELSE IF s[i] = "{"
         THEN IF i + 1 <= Len(s) /\ s[i + 1] = "}" THEN ParseOk(JObj(<<>>), i + 2)
              ELSE ParseFields(s, i + 1, <<>>)
    ELSE ParseFail

\* JSON.parse(text): [ok, val]; ok is FALSE when it throws.
WholeText(text, r) ==
    IF r.ok /\ r.next = Len(text) + 1
    THEN [ok |-> TRUE, val |-> r.val]
    ELSE [ok |-> FALSE, val |-> JUndef]

JsonParse(text) == WholeText(text, ParseValue(text, 1))

\* value[name]: the last member of that name of an object, else undefined.
Prop(v, name) ==
    IF v.t # "obj" THEN JUndef
    ELSE LET hits == {i \in 1..Len(v.kids) : v.kids[i].k = name}
         IN  IF hits = {} THEN JUndef
             ELSE v.kids[CHOOSE i \in hits : \A j \in hits : j <= i].v

----------------------------------------------------------------------------
(* TransactionCache: keys, content hash, expiry  (lib/storage) *)

defaultTTL == 10 * 60 * 1000
maxMemoryEntries == 50
storageKey == <<"p","a","y","t","r","a","c","k","e","r","_","c","a","c","h","e">>
DefaultUrl == <<"d","e","f","a","u","l","t">>

\* 2^16: the content hash is kept as two 16-bit halves [hi, lo] of its
\* 32-bit value, so that (hash << 5) - hash + char wraps as in the code.
Half == 65536

\* hash = (hash << 5) - hash + char; hash = hash & hash  (31 * hash + char,
\* truncated to 32 bits).
HashStep(h, code) ==
    LET low == h.lo * 31 + code
    IN  [hi |-> (h.hi * 31 + low \div Half) % Half, lo |-> low % Half]

\* The loop over str[i..j], started with hash h (the range is halved so
\* that the evaluation does not nest once per character).
RECURSIVE HashFrom(_, _, _, _)
HashFrom(str, i, j, h) ==
    IF i > j THEN h
    ELSE IF i = j THEN HashStep(h, CharCode(str[i]))
    ELSE LET mid == (i + j) \div 2
             left == HashFrom(str, i, mid, h)
         IN  IF left.lo < Half THEN HashFrom(str, mid + 1, j, left) ELSE left

\* Math.abs of the signed 32-bit value: a value with the top bit set is
\* negative, and its magnitude is 2^32 minus it.
HashAbs(h) ==
    IF h.hi < Half \div 2 THEN h
    ELSE IF h.lo = 0 THEN [hi |-> Half - h.hi, lo |-> 0]
    ELSE [hi |-> Half - 1 - h.hi, lo |-> Half - h.lo]

Base36Chars == DigitChars \o LowerChars

\* Number.prototype.toString(36) of the value hi * 2^16 + lo.
RECURSIVE ToBase36(_)
ToBase36(h) ==
    LET mid == (h.hi % 36) * Half + h.lo
        q == [hi |-> h.hi \div 36, lo |-> mid \div 36]
        d == <<Base36Chars[(mid % 36) + 1]>>
    IN  IF q.hi = 0 /\ q.lo = 0 THEN d ELSE ToBase36(q) \o d

generateContentHash(data) ==
    LET str == Stringify(data)
    IN  ToBase36(HashAbs(HashFrom(str, 1, Len(str), [hi |-> 0, lo |-> 0])))

\* The position of the first occurrence of the text p in s at or after
\* position i, or 0.
FindFrom(s, p, i) ==
    LET hits == {k \in i..(Len(s) + 1) : MatchAt(s, k, p)}
    IN  IF hits = {} THEN 0 ELSE MinOf(hits)

\* new URL(url): [ok, pathname, search]. A URL needs a scheme followed by
\* "://" and a host; the path runs from the first "/" after the host to the
\* "?", and the search from the "?" to the end (a lone "?" gives an empty
\* search). ok is FALSE when the constructor throws.
UrlParts(url, hostAt, slash, query, hostEnd, pathEnd) ==
    IF hostAt < 5 \/ hostEnd < hostAt
    THEN [ok |-> FALSE, pathname |-> <<>>, search |-> <<>>]
    ELSE [ok |-> TRUE,
          pathname |-> IF slash # 0 /\ (query = 0 \/ slash < query)
                       THEN Slice(url, slash, pathEnd) ELSE <<"/">>,
          search |-> IF query # 0 /\ query < Len(url)
                     THEN Slice(url, query, Len(url)) ELSE <<>>]

\* The parts of url given the positions of the first "/" and "?" after the
\* start of the host (0 when there is none).
UrlMarks(url, hostAt, slash, query) ==
    UrlParts(url, hostAt, slash, query,
             IF slash # 0 /\ (query = 0 \/ slash < query) THEN slash - 1
             ELSE IF query # 0 THEN query - 1 ELSE Len(url),
             IF query # 0 THEN query - 1 ELSE Len(url))

UrlHost(url, hostAt) ==
    UrlMarks(url, hostAt, FindFrom(url, <<"/">>, hostAt), FindFrom(url, <<"?">>, hostAt))

ParseUrl(url) == UrlHost(url, FindFrom(url, <<":","/","/">>, 1) + 3)

\* url.replace(/[^a-zA-Z0-9]/g, '_')
Sanitize(url) ==
    [i \in 1..Len(url) |->
        IF url[i] \in Upper \cup Lower \cup Digit THEN url[i] ELSE "_"]

\* generateKey(url, contentHash); contentHash is Null when not given.
WithHash(urlKey, contentHash) ==
    IF contentHash # Null /\ contentHash[1] # <<>>
    THEN urlKey \o <<"_">> \o contentHash[1]
    ELSE urlKey

UrlKey(url, u) == IF u.ok THEN u.pathname \o u.search ELSE Sanitize(url)

generateKey(url, contentHash) == WithHash(UrlKey(url, ParseUrl(url)), contentHash)

\* currentUrl.split('?')[0]
BeforeQuery(url) ==
    LET q == FindFrom(url, <<"?">>, 1)
    IN  IF q = 0 THEN url ELSE Slice(url, 1, q - 1)

\* key.replace(`${storageKey}_`, ''): the first occurrence removed.
StripStoragePrefix(key) ==
    LET p == storageKey \o <<"_">>
        at == FindFrom(key, p, 1)
    IN  IF at = 0 THEN key
        ELSE Slice(key, 1, at - 1) \o Slice(key, at + Len(p), Len(key))

\* Date.now() is TimeHigh * 10^9 + now: the clock of the model counts the
\* milliseconds within one span of 10^9 ms, and a time is written with the
\* 13 digits the real clock has.
TimeHigh == 1762
Billion == 1000000000

RECURSIVE PadLeft(_, _)
PadLeft(digits, n) == IF Len(digits) >= n THEN digits ELSE PadLeft(<<"0">> \o digits, n)

\* The digits of Date.now() at model time now.
TimeDigits(now) == NatToStr(TimeHigh) \o PadLeft(NatToStr(now), 9)

\* The value of a digit string of at most 9 digits.
RECURSIVE DigitsVal(_, _)
DigitsVal(d, acc) == IF d = <<>> THEN acc ELSE DigitsVal(Tail(d), acc * 10 + DigitVal(Head(d)))

\* A number as [hi, lo] = hi * 10^9 + lo; a number of more than 18 digits is
\* given hi = 10^9 (it is beyond every time the clock shows).
NumParts(digits) ==
    LET n == Len(digits)
    IN  IF n <= 9 THEN [hi |-> 0, lo |-> DigitsVal(digits, 0)]
        ELSE IF n > 18 THEN [hi |-> Billion, lo |-> 0]
        ELSE [hi |-> DigitsVal(Slice(digits, 1, n - 9), 0),
              lo |-> DigitsVal(Slice(digits, n - 8, n), 0)]

\* a - b > limit for numbers given by their digits (limit below 10^9).
PartsExceedBy(x, y, limit) ==
    IF x.hi - y.hi >= 2 THEN TRUE
    ELSE IF x.hi - y.hi <= -2 THEN FALSE
    ELSE (x.hi - y.hi) * Billion + (x.lo - y.lo) > limit

ExceedsBy(a, b, limit) == PartsExceedBy(NumParts(a), NumParts(b), limit)

\* a.timestamp - b.timestamp < 0
PartsEarlier(x, y) == x.hi < y.hi \/ (x.hi = y.hi /\ x.lo < y.lo)

Earlier(a, b) == PartsEarlier(NumParts(a), NumParts(b))

\* isExpired(entry): Date.now() - entry.timestamp > ttl, entry being a
\* JSON value. A timestamp that is missing or not a number makes the
\* difference NaN and the comparison false.
StampExpired(timestamp, now, ttl) ==
    /\ timestamp.t = "num"
    /\ ExceedsBy(TimeDigits(now), timestamp.s, ttl)

isExpired(entry, now, ttl) ==
    StampExpired(Prop(entry, <<"t","i","m","e","s","t","a","m","p">>), now, ttl)

\* The memory tier is a Map: a sequence of items [key, entry, at] in
\* insertion order, entry being the CacheEntry as a JSON value. at is a
\* history field the code does not have: the clock at the set call that
\* wrote the entry.
Item(key, entry, at) == [key |-> key, entry |-> entry, at |-> at]

\* The identity of a data object: the object a caller passes to set
\* ("argument"), or the data object of the memory entry of a key ("entry"),
\* which set makes by JSON.parse(JSON.stringify(data)) and get by
\* JSON.parse of the stored text.
ArgumentObject == [kind |-> "argument", key |-> <<>>]
EntryObject(key) == [kind |-> "entry", key |-> key]
NoObject == [kind |-> "none", key |-> <<>>]

\* Every write lands at the end of the memory tier, also for a key it holds.
MapAppended(mem, item) == Append(mem, item)

\* Map.prototype.set: an existing key keeps its position.
MapSet(mem, item) ==
    IF \E i \in 1..Len(mem) : mem[i].key = item.key
    THEN [i \in 1..Len(mem) |-> IF mem[i].key = item.key THEN item ELSE mem[i]]
    ELSE Append(mem, item)

\* The digits of an entry's timestamp (0 when it is not a number).
StampDigits(timestamp) == IF timestamp.t = "num" THEN timestamp.s ELSE <<"0">>

StampOf(entry) == StampDigits(Prop(entry, <<"t","i","m","e","s","t","a","m","p">>))

\* cleanupMemoryCache(): the expired entries are deleted; then, beyond
\* maxEntries, the entries are sorted by timestamp (a stable sort) and the
\* first size - maxEntries of them deleted.
SortsBefore(live, i, j) ==
    \/ Earlier(StampOf(live[i].entry), StampOf(live[j].entry))
    \/ (~Earlier(StampOf(live[j].entry), StampOf(live[i].entry)) /\ i < j)

\* The items of live at the positions kept, in their order.
ItemsAt(live, kept) ==
    [n \in 1..Cardinality(kept) |->
        live[CHOOSE i \in kept : Cardinality({j \in kept : j < i}) = n - 1]]

\* live without its excess oldest items.
DeleteOldest(live, excess) ==
    IF excess <= 0 THEN live
    ELSE ItemsAt(live, {i \in 1..Len(live) :
                           Cardinality({j \in 1..Len(live) : SortsBefore(live, j, i)}) >= excess})

\* A memory tier that is never cut down to maxEntries.
Unlimited(live, opts) == live

SizeLimited(live, opts) == DeleteOldest(live, Len(live) - opts.maxEntries)

cleanupMemoryCache(mem, now, opts) ==
    SizeLimited(SelectSeq(mem, LAMBDA it : ~isExpired(it.entry, now, opts.ttl)), opts)

\* The CacheEntry built by set.
NewEntry(data, now, currentUrl, contentHash) ==
    JObj(<< Field(<<"d","a","t","a">>, data),
            Field(<<"t","i","m","e","s","t","a","m","p">>, JNum(TimeDigits(now))),
            Field(<<"u","r","l">>, JStr(currentUrl)),
            Field(<<"h","a","s","h">>, JStr(contentHash)) >>)

LatestKey == storageKey \o <<"_","l","a","t","e","s","t">>

\* A value of the storage area: the text stored, with history fields the
\* code does not have: the clock at the set call that stored it, and the
\* data and url of that call.
Stored(text, at, data, url) == [text |-> text, at |-> at, data |-> data, url |-> url]

\* chrome.storage.local.set({[key]: value}) on the storage area, a function
\* from keys to values.
StoragePut(store, key, value) ==
    [k \in DOMAIN store \cup {key} |-> IF k = key THEN value ELSE store[k]]

\* chrome.storage.local.remove(keys)
StorageRemove(store, keys) == [k \in DOMAIN store \ keys |-> store[k]]

\* getStorageKeys(): the keys that start with storageKey.
OwnKeys(store) == {k \in DOMAIN store : StartsWith(k, storageKey)}

\* set(data, url): currentUrl is url, or what getCurrentUrl() gave when no
\* url is passed. The result is the memory tier and the storage area after
\* the call.
StoreEntry(mem, store, opts, now, key, entry, compressedData) ==
    [mem |-> cleanupMemoryCache(MapSet(mem, Item(key, entry, now)), now, opts),
     store |-> StoragePut(StoragePut(store, storageKey \o <<"_">> \o key, compressedData),
                          LatestKey, compressedData)]

SetEntry(mem, store, opts, now, data, currentUrl, key, entry) ==
    StoreEntry(mem, store, opts, now, key, entry,
               Stored(compress(opts.enableCompression, Stringify(entry)), now, data, currentUrl))

SetHashed(mem, store, opts, now, data, currentUrl, contentHash) ==
    SetEntry(mem, store, opts, now, data, currentUrl,
             generateKey(currentUrl, Some(contentHash)),
             NewEntry(data, now, currentUrl, contentHash))

CacheSet(mem, store, opts, now, data, currentUrl) ==
    SetHashed(mem, store, opts, now, data, currentUrl, generateContentHash(data))

\* JSON.parse(this.decompress(compressedData)): [ok, val]; ok is FALSE when
\* either throws.
ParseDecompressed(d) ==
    IF d.thrown THEN [ok |-> FALSE, val |-> JUndef] ELSE JsonParse(d.text)

Decode(opts, compressedData) ==
    ParseDecompressed(decompress(opts.enableCompression, compressedData))

\* entry.url === currentUrl || !url ; url is Null when get has no argument.
UrlMatches(entry, url, currentUrl) ==
    url = Null \/ Prop(entry, <<"u","r","l">>) = JStr(currentUrl)

\* One turn of the loop of get over the storage keys: the key is passed
\* over ("pass": shouldCheck is false, the value is empty, or the decoded
\* entry is expired or of another url), the decode throws ("error"), or the
\* entry is accepted ("hit").
CheckDecoded(d, opts, now, url, currentUrl) ==
    IF ~d.ok THEN [kind |-> "error", entry |-> JUndef]
    ELSE IF ~isExpired(d.val, now, opts.ttl) /\ UrlMatches(d.val, url, currentUrl)
         THEN [kind |-> "hit", entry |-> d.val]
    ELSE [kind |-> "pass", entry |-> JUndef]

CheckKey(key, store, opts, now, url, currentUrl) ==
    LET shouldCheck == IF url # Null
                       THEN Includes(key, BeforeQuery(currentUrl))
                       ELSE StartsWith(key, storageKey)
    IN  IF ~shouldCheck \/ store[key].text = <<>> THEN [kind |-> "pass", entry |-> JUndef]
        ELSE CheckDecoded(Decode(opts, store[key].text), opts, now, url, currentUrl)

\* The loop of get over the keys in the order the storage enumerates them,
\* from the i-th on; checked maps each key to its turn of the loop. The scan
\* ends at the first hit, or in the catch of get at the first error (get
\* returns null), or is a miss.
RECURSIVE ScanStorage(_, _, _)
ScanStorage(order, i, checked) ==
    IF i > Len(order) THEN [kind |-> "miss", key |-> <<>>, entry |-> JUndef]
    ELSE LET turn == checked[order[i]]
         IN  IF turn.kind = "pass" THEN ScanStorage(order, i + 1, checked)
             ELSE [kind |-> turn.kind, key |-> order[i], entry |-> turn.entry]

\* The first memory item get accepts, as a position, or 0.
MemoryHit(mem, opts, now, url, currentUrl) ==
    LET hits == {i \in 1..Len(mem) :
                    /\ UrlMatches(mem[i].entry, url, currentUrl)
                    /\ ~isExpired(mem[i].entry, now, opts.ttl)}
    IN  IF hits = {} THEN 0 ELSE MinOf(hits)

\* get(url): url is Null when absent, currentUrl is url or what
\* getCurrentUrl() gave, order the key enumeration of the storage. The
\* result is
\*   found   whether data is returned (FALSE: null)
\*   data    the data returned, a JSON value (undefined when the entry has none)
\*   ref     the identity of the object returned: entry.data of a memory
\*           entry, which on a storage hit is the entry just parsed
\*   tier    "memory" | "storage" | "none"
\*   at      the history field of the entry the data came from
\*   mem     the memory tier after the call
StorageHit(mem, store, scan, key) ==
    [found |-> TRUE, data |-> Prop(scan.entry, <<"d","a","t","a">>),
     ref |-> EntryObject(key),
     tier |-> "storage", at |-> store[scan.key].at,
     mem |-> MapSet(mem, Item(key, scan.entry, store[scan.key].at))]

GetResult(mem, store, m, scan) ==
    IF m # 0
    THEN [found |-> TRUE, data |-> Prop(mem[m].entry, <<"d","a","t","a">>),
          ref |-> EntryObject(mem[m].key),
          tier |-> "memory", at |-> mem[m].at, mem |-> mem]
    ELSE IF scan.kind = "hit"
    THEN StorageHit(mem, store, scan, StripStoragePrefix(scan.key))
    ELSE [found |-> FALSE, data |-> JUndef, ref |-> NoObject,
          tier |-> "none", at |-> 0, mem |-> mem]

CacheGet(mem, store, opts, now, url, currentUrl, order) ==
    GetResult(mem, store,
              MemoryHit(mem, opts, now, url, currentUrl),
              ScanStorage(order, 1,
                  [k \in OwnKeys(store) |-> CheckKey(k, store, opts, now, url, currentUrl)]))

\* clear(url): with a url, the memory entries of that url and the storage
\* keys that contain the url up to its "?" are removed; without, everything.
CacheClear(mem, store, url) ==
    IF url # Null
    THEN [mem |-> SelectSeq(mem, LAMBDA it : Prop(it.entry, <<"u","r","l">>) # JStr(url[1])),
          store |-> StorageRemove(store,
                        {k \in OwnKeys(store) : Includes(k, BeforeQuery(url[1]))})]
    ELSE [mem |-> <<>>, store |-> StorageRemove(store, OwnKeys(store))]

\* What cleanup removes: a value that does not decode, or an expired entry.
Removable(d, opts, now) == ~d.ok \/ isExpired(d.val, now, opts.ttl)

\* cleanup(): cleanupMemoryCache, then every own key whose value decodes to
\* an expired entry, or does not decode, is removed.
CacheCleanup(mem, store, opts, now) ==
    [mem |-> cleanupMemoryCache(mem, now, opts),
     store |-> StorageRemove(store,
                   {k \in OwnKeys(store) :
                       /\ store[k].text # <<>>
                       /\ Removable(Decode(opts, store[k].text), opts, now)})]

\* One sequence that enumerates the set S.
RECURSIVE SomeOrder(_)
SomeOrder(S) ==
    IF S = {} THEN <<>>
    ELSE LET x == CHOOSE y \in S : TRUE IN <<x>> \o SomeOrder(S \ {x})

\* The orders in which the storage may enumerate the keys S, as far as one
\* get can tell them apart: get ends at the first key it accepts or fails
\* to decode, so it is enough that every key comes first in one of them.
Orders(S) ==
    IF S = {} THEN {<<>>} ELSE {<<k>> \o SomeOrder(S \ {k}) : k \in S}

\* constructor(options): a missing (or zero, or false) option takes its
\* default; 0 stands for a missing number.
TransactionCache(options) ==
    [ttl |-> IF options.ttl = 0 THEN defaultTTL ELSE options.ttl,
     maxEntries |-> IF options.maxEntries = 0 THEN maxMemoryEntries ELSE options.maxEntries,
     enableCompression |-> options.enableCompression]

\* export const transactionCache = new TransactionCache({maxEntries: 100,
\* enableCompression: true})
transactionCache == TransactionCache([ttl |-> 0, maxEntries |-> 100, enableCompression |-> TRUE])

\* The two UI surfaces; each loads its own instance of the store module.
Surfaces == {"popup", "detached"}

\* The clock when the model starts: Date.now() = 1762300812345.
StartTime == 300812345

\* The record of a set or get on a store: what was called, on which
\* surface, with which url argument (Null when absent) and resolved
\* currentUrl, at which instant. For set, data and ref are the argument and
\* its identity. For get, found, data, ref, tier and at are the outcome,
\* cold tells that the memory tier was empty when get was called, and
\* wrote and wroteRef are the argument of the set that the same surface
\* completed with the same url just before, at the same instant (undefined
\* when get does not follow such a set).
Operation(op, surface, url, currentUrl, data, ref, found, tier, at, cold, wrote, wroteRef) ==
    [op |-> op, surface |-> surface, url |-> url, currentUrl |-> currentUrl,
     data |-> data, ref |-> ref, found |-> found, tier |-> tier, at |-> at,
     cold |-> cold, wrote |-> wrote, wroteRef |-> wroteRef]

NoOperation ==
    Operation("none", "none", Null, <<>>, JUndef, NoObject, FALSE, "none", 0, FALSE, JUndef, NoObject)

\* The stores before anything is cached.
CacheIdle ==
    /\ clock = StartTime
    /\ chromeStorage = <<>>
    /\ memoryCache = [s \in Surfaces |-> <<>>]
    /\ cacheOptions = transactionCache
    /\ steps = 0
    /\ last = NoOperation

----------------------------------------------------------------------------
(* The page of the popup and of the detached window  (routes/+page, lib/utils) *)

\* The windows one behaviour opens.
MaxWindows == 3
WindowIds == 1..MaxWindows

\* What the component shows and syncs: transactions, searchTerm and the
\* privacyMode and cloverMode toggles.
View(transactions, searchTerm, privacyMode, cloverMode) ==
    [transactions |-> transactions, searchTerm |-> searchTerm,
     privacyMode |-> privacyMode, cloverMode |-> cloverMode]

\* A SyncState snapshot in chrome.storage.local: a View and the timestamp
\* written with it (Null in the detachedModeData that detachWindow writes).
Snapshot(view, timestamp) == [view |-> view, timestamp |-> timestamp]

\* A window of the extension. phase is "none" (not opened yet), "loading"
\* (opened, onMount not run), "open", "closing" (reattachWindow has set the
\* timer that closes it) or "closed". instanceId is what setInstanceMarker
\* returned to it, mem the memory tier of its transactionCache. handed and
\* began are history: the View that the ceding surface held when this
\* window was started by a handoff, and the View it had when onMount ended.
Window(kind, phase, instanceId, view, mem, handed, began) ==
    [kind |-> kind, phase |-> phase, instanceId |-> instanceId, view |-> view,
     mem |-> mem, handed |-> handed, began |-> began]

EmptyList == JArr(<<>>)

\* let transactions = [], searchTerm = '', privacyMode = false, cloverMode = false
InitialView == View(EmptyList, <<>>, FALSE, FALSE)

NoWindow == Window("none", "none", <<>>, InitialView, <<>>, Null, Null)

\* No handoff is under way.
NoHandoff == [to |-> "none", view |-> InitialView]

\* The extension before any window is opened.
PageIdle ==
    /\ windows = [w \in WindowIds |-> NoWindow]
    /\ syncStorage = [lastSyncMode |-> "none", lastSyncTime |-> 0,
                      popupModeData |-> Null, detachedModeData |-> Null]
    /\ instanceMarkers = [s \in Surfaces |-> Null]
    /\ localSettings = [privacyMode |-> Null, cloverMode |-> Null]
    /\ ceded = NoHandoff
    /\ edits = 0

\* getSetting(key, defaultValue)
getSetting(settings, key, defaultValue) ==
    IF settings[key] = Null THEN defaultValue ELSE settings[key][1]

\* setSetting(key, value)
setSetting(settings, key, value) == [settings EXCEPT ![key] = Some(value)]

\* data.transactions && data.transactions.length > 0
NonEmpty(list) == list.t = "arr" /\ Len(list.kids) > 0

\* setInstanceMarker(type): instanceId is Date.now().toString(), stored with
\* instanceTime Date.now().
setInstanceMarker(markers, type, now) ==
    [markers EXCEPT ![type] = Some([id |-> TimeDigits(now), time |-> now])]

\* clearInstanceMarker(type)
clearInstanceMarker(markers, type) == [markers EXCEPT ![type] = Null]

\* The default maxAge of checkInstanceExists.
maxAge == 30000

\* checkInstanceExists(type): instanceTime && Date.now() - instanceTime < maxAge
checkInstanceExists(markers, type, now) ==
    markers[type] # Null /\ now - markers[type][1].time < maxAge

\* findExistingDetachedWindow(): some window of the browser that is a
\* detached window (type 'popup', at least 700 wide).
findExistingDetachedWindow(wins) ==
    {w \in WindowIds : wins[w].kind = "detached" /\ wins[w].phase \in {"loading", "open", "closing"}}

\* onMount without the part that adopts a snapshot.
IgnoreSync(kind, v, sync) == v

\* The part of onMount that adopts the snapshot of the other mode: the View
\* after it, from the View v that the settings gave.
AdoptSync(kind, v, sync) ==
    LET fromPopup == sync.lastSyncMode = "popup" /\ sync.popupModeData # Null
                        /\ NonEmpty(sync.popupModeData[1].view.transactions)
        own == sync.detachedModeData[1].view
    IN  IF kind = "detached"
        THEN IF fromPopup THEN sync.popupModeData[1].view
             ELSE IF sync.detachedModeData # Null
             THEN View(IF NonEmpty(own.transactions) THEN own.transactions ELSE v.transactions,
                       IF own.searchTerm # <<>> THEN own.searchTerm ELSE v.searchTerm,
                       own.privacyMode, own.cloverMode)
             ELSE v
        ELSE IF /\ sync.lastSyncMode = "detached"
                /\ sync.detachedModeData # Null
                /\ NonEmpty(own.transactions)
                /\ ~NonEmpty(v.transactions)
             THEN own
             ELSE v

\* loadCachedData(): the popup takes its own popupModeData when there is
\* one; otherwise transactionCache.get() is asked, and a non-empty list is
\* taken. Either way updateCacheStatus() then asks transactionCache.has(),
\* which is a get(). The result is the View and the memory tier after the
\* call.
LoadedFrom(kind, v, sync, r) ==
    LET data == sync.popupModeData[1].view
    IN  IF kind = "popup" /\ sync.popupModeData # Null
        THEN [view |-> View(data.transactions,
                            IF data.searchTerm # <<>> THEN data.searchTerm ELSE v.searchTerm,
                            data.privacyMode, data.cloverMode),
              mem |-> r.mem]
        ELSE [view |-> IF r.found /\ NonEmpty(r.data)
                       THEN [v EXCEPT !.transactions = r.data] ELSE v,
              mem |-> r.mem]

loadCachedData(kind, v, mem, sync, store, opts, now, order) ==
    LoadedFrom(kind, v, sync, CacheGet(mem, store, opts, now, Null, DefaultUrl, order))

\* refresh(useCache): with useCache, a non-empty list from
\* transactionCache.get() is shown; otherwise the page is extracted (fresh
\* is the list extracted, or undefined when the extraction throws), and a
\* non-empty list is shown and cached under currentUrl; unless the
\* extraction throws, updateCacheStatus() then asks transactionCache.has(),
\* which is a get(). The result is the View, the memory tier and the
\* storage after the call. r is what transactionCache.get() gives on the
\* memory tier mem, and w what transactionCache.set(fresh) leaves.
Refreshed(v, mem, store, useCache, fresh, r, w) ==
    IF useCache /\ r.found /\ NonEmpty(r.data)
    THEN [view |-> [v EXCEPT !.transactions = r.data], mem |-> r.mem, store |-> store]
    ELSE IF fresh = JUndef
         THEN [view |-> v, mem |-> IF useCache THEN r.mem ELSE mem, store |-> store]
    ELSE IF ~NonEmpty(fresh) THEN [view |-> v, mem |-> r.mem, store |-> store]
    ELSE [view |-> [v EXCEPT !.transactions = fresh], mem |-> w.mem, store |-> w.store]

RefreshWith(v, mem, store, opts, now, useCache, fresh, currentUrl, r) ==
    Refreshed(v, mem, store, useCache, fresh, r,
              CacheSet(IF useCache THEN r.mem ELSE mem, store, opts, now, fresh, currentUrl))

refresh(v, mem, store, opts, now, useCache, fresh, currentUrl, order) ==
    RefreshWith(v, mem, store, opts, now, useCache, fresh, currentUrl,
                CacheGet(mem, store, opts, now, Null, currentUrl, order))

\* syncDataBetweenModes(sourceMode): the list is cached and the snapshot
\* written under <sourceMode>ModeData with lastSyncMode and lastSyncTime.
\* The result is the memory tier, the storage and the sync keys after it.
Synced(sourceMode, sync, now, w, currentData) ==
    [mem |-> w.mem, store |-> w.store,
     sync |-> IF sourceMode = "popup"
              THEN [sync EXCEPT !.popupModeData = currentData,
                                !.lastSyncMode = sourceMode, !.lastSyncTime = now]
              ELSE [sync EXCEPT !.detachedModeData = currentData,
                                !.lastSyncMode = sourceMode, !.lastSyncTime = now]]

syncDataBetweenModes(sourceMode, v, mem, store, sync, opts, now, currentUrl) ==
    Synced(sourceMode, sync, now,
           CacheSet(mem, store, opts, now, v.transactions, currentUrl),
           Some(Snapshot(v, Some(now))))

----------------------------------------------------------------------------
(* extractTransactionData: the tab the extraction is run in  (lib/utils) *)

\* A tab as chrome.tabs.query gives it: id, url and title are optional
\* (Null when absent; the url of a tab that has not committed a page yet is
\* the empty string), active and currentWindow are what query filters on.
Tab(id, url, title, active, currentWindow) ==
    [id |-> id, url |-> url, title |-> title, active |-> active,
     currentWindow |-> currentWindow]

\* An optional string or number that is truthy: present, and not empty.
Truthy(x) == x # Null /\ x[1] # <<>>

\* String.prototype.toLowerCase()
toLowerCase(s) ==
    [i \in 1..Len(s) |->
        IF s[i] \in Upper THEN LowerChars[IndexOf(s[i], UpperChars)] ELSE s[i]]

\* The predicate of allTabs.find: t.url && (t.url.includes('paytracker') ||
\* t.url.includes('app.') || t.title?.toLowerCase().includes('paytracker'))
IsPayTrackerTab(t) ==
    /\ Truthy(t.url)
    /\ \/ Includes(t.url[1], <<"p","a","y","t","r","a","c","k","e","r">>)
       \/ Includes(t.url[1], <<"a","p","p",".">>)
       \/ (t.title # Null /\ Includes(toLowerCase(t.title[1]), <<"p","a","y","t","r","a","c","k","e","r">>))

\* allTabs.filter(t => t.url && !t.url.startsWith('chrome-extension://'))
regularTabs(allTabs) ==
    SelectSeq(allTabs, LAMBDA t : Truthy(t.url) /\ ~StartsWith(t.url[1], <<"c","h","r","o","m","e","-","e","x","t","e","n","s","i","o","n",":","/","/">>))

\* Array.prototype.find and the last element of an array: Null for undefined.
FindFirst(list, Test(_)) ==
    IF \E i \in 1..Len(list) : Test(list[i])
    THEN Some(list[MinOf({i \in 1..Len(list) : Test(list[i])})])
    ELSE Null

LastOf(list) == IF list = <<>> THEN Null ELSE Some(list[Len(list)])

\* The tab extractTransactionData settles on, Null for undefined:
\* in a detached window the first PayTracker tab, else the last regular
\* tab; in the popup the first tab of query({active: true, currentWindow:
\* true}).
TabFound(found, allTabs) ==
    IF found # Null THEN found ELSE LastOf(regularTabs(allTabs))

ResolveTab(isDetachedWindow, allTabs) ==
    IF isDetachedWindow
    THEN TabFound(FindFirst(allTabs, IsPayTrackerTab), allTabs)
    ELSE FindFirst(allTabs, LAMBDA t : t.active /\ t.currentWindow)

\* tab.url as a string: '' when the tab has none.
UrlOrEmpty(tab) == IF Truthy(tab.url) THEN tab.url[1] ELSE <<>>

\* The url of the page of the extension in a detached window.
DetachedUrl == <<"c","h","r","o","m","e","-","e","x","t","e","n","s","i","o","n",":","/","/","a","b","/","i",".","h","t","m","l","?","d","e","t","a","c","h","e","d","=","t","r","u","e">>

\* getCurrentUrl() of the store in a surface: tab.url || 'default' for the
\* first tab of query({active: true, currentWindow: true}), and 'default'
\* from the catch when there is none. The current window of a detached
\* window is that window, whose tab shows the page of the extension.
ActiveUrl(tab) == IF tab # Null /\ Truthy(tab[1].url) THEN tab[1].url[1] ELSE DefaultUrl

CurrentTabUrl(mode, allTabs) ==
    IF mode = "detached" THEN DetachedUrl
    ELSE ActiveUrl(FindFirst(allTabs, LAMBDA t : t.active /\ t.currentWindow))

\* !tab?.id is false
HasTabId(tab) == tab # Null /\ tab[1].id # Null /\ tab[1].id[1] # 0

----------------------------------------------------------------------------
(* refresh and the extraction calls of one surface  (routes/+page) *)

\* What the catch of refresh shows, what refresh shows for an empty list,
\* and no error (the texts after their leading symbol).
ExtractionFailed ==
    "Error extracting transactions. Make sure you are on the PayTracker page."
NoTransactionsFound == "No transactions found on this page."
NoError == ""

\* What makes an extraction fail: extractTransactionData throws 'No suitable
\* tab found for data extraction', or executeScript rejects for a missing
\* host permission, or for another reason.
Causes == {"NoTab", "Permission", "Other"}

\* The surface: isDetachedWindow as mode, whether its page is open, and the
\* component's loading, error, transactions, cacheStatus.hasCache and
\* showCacheControls.
Pane(mode, phase, loading, error, transactions, hasCache, showCacheControls) ==
    [mode |-> mode, phase |-> phase, loading |-> loading, error |-> error,
     transactions |-> transactions, hasCache |-> hasCache,
     showCacheControls |-> showCacheControls]

\* A refresh call that awaits extractTransactionData: stage is "tabs" while
\* chrome.tabs.query is awaited and "script" while executeScript is; detach
\* tells that detachWindow awaits the call.
Call(useCache, detach, stage, tabId, url) ==
    [useCache |-> useCache, detach |-> detach, stage |-> stage, tabId |-> tabId,
     url |-> url]

\* The record of a tab resolution: the mode and the tabs it saw, the tab
\* it settled on, whether it threw, and how many scripts had been injected
\* before it.
Resolution(done, mode, allTabs, tab, threw, before) ==
    [done |-> done, mode |-> mode, allTabs |-> allTabs, tab |-> tab,
     threw |-> threw, before |-> before]

NoResolution == Resolution(FALSE, "none", <<>>, Null, FALSE, 0)

\* The surface before it is opened.
RequestIdle ==
    /\ tabList = <<>>
    /\ pane = Pane("none", "none", FALSE, NoError, EmptyList, FALSE, FALSE)
    /\ calls = <<>>
    /\ injected = <<>>
    /\ resolved = NoResolution
    /\ shown = [c \in Causes |-> Null]
    /\ scraped = {}

----------------------------------------------------------------------------
(* The store when calls of the browser fail  (lib/storage) *)

\* Which calls fail during one operation of the store: chrome.tabs.query,
\* the enumeration of the keys, the reads, the writes and the removals of
\* chrome.storage.local.
Faults(tabs, keys, reads, writes, removes) ==
    [tabs |-> tabs, keys |-> keys, reads |-> reads, writes |-> writes,
     removes |-> removes]

\* The failures that bear on set, on get, on clear, on cleanup and on
\* getStats: those of the calls the operation makes.
SetFaults == {Faults(a, FALSE, FALSE, d, FALSE) : a \in BOOLEAN, d \in BOOLEAN}
GetFaults == {Faults(a, b, c, FALSE, FALSE) : a \in BOOLEAN, b \in BOOLEAN, c \in BOOLEAN}
ClearFaults == {Faults(FALSE, b, FALSE, FALSE, e) : b \in BOOLEAN, e \in BOOLEAN}
CleanupFaults ==
    {Faults(FALSE, b, c, FALSE, e) : b \in BOOLEAN, c \in BOOLEAN, e \in BOOLEAN}
StatsFaults == {Faults(FALSE, b, FALSE, FALSE, FALSE) : b \in BOOLEAN}

\* A helper that lets the failure of its call out.
Rethrows(fails) == fails

\* Whether a failing call makes the helper that wraps it throw: each of
\* getCurrentUrl, getStorageKeys and removeStorage runs its call in a try
\* whose catch logs the error and returns a default. (getStorage and
\* setStorage do the same, and are only called within a try of get, set
\* and cleanup.)
getCurrentUrlThrows(fails) == FALSE
getStorageKeysThrows(fails) == FALSE
removeStorageThrows(fails) == FALSE

\* getCurrentUrl(): tab.url || 'default', and 'default' from its catch.
getCurrentUrl(tabUrl, fails) == IF fails THEN DefaultUrl ELSE tabUrl

\* The storage as the reads of an operation show it: getStorageKeys gives
\* [] from its catch and getStorage null from its catch.
Readable(store, f) ==
    IF f.keys \/ f.reads THEN StorageRemove(store, OwnKeys(store)) ELSE store

\* The keys an operation would remove, given the storage before and the
\* storage after as it removes them when no call fails.
Removed(before, after) == DOMAIN before \ DOMAIN after

\* set(data, url) with failing calls: the memory tier is written; the two
\* setStorage calls are within a try of set.
FaultySetResult(mem, store, f, w) ==
    [mem |-> w.mem, store |-> IF f.writes THEN store ELSE w.store,
     thrown |-> FALSE]

\* clear(url) and cleanup() with failing calls: the memory tier is swept;
\* the keys come from getStorageKeys, the values from getStorage, and the
\* keys found are removed by removeStorage, none of them within a try of
\* clear (in cleanup the catch of the loop calls removeStorage).
FaultySweepResult(store, f, r, gone) ==
    [mem |-> r.mem,
     store |-> IF f.removes THEN store ELSE StorageRemove(store, gone),
     thrown |-> \/ getStorageKeysThrows(f.keys)
                \/ removeStorageThrows(f.removes /\ gone # {})]

\* The storage as clear sees it: the keys that getStorageKeys gives.
Listed(store, f) == IF f.keys THEN StorageRemove(store, OwnKeys(store)) ELSE store

\* The record of an operation run with failing calls: the operation, the
\* failures, whether a call that failed was made, whether the operation
\* threw, and for get whether it found an entry in the memory tier and
\* whether it returned data.
Faulty(op, f, failed, thrown, memoryHit, found) ==
    [op |-> op, f |-> f, failed |-> failed, thrown |-> thrown,
     memoryHit |-> memoryHit, found |-> found]

NoFault == Faulty("none", Faults(FALSE, FALSE, FALSE, FALSE, FALSE), FALSE, FALSE, FALSE, FALSE)

FaultIdle == faulty = NoFault

\* The utility harness at rest.
UtilIdle == upc = "idle" /\ uin = <<>> /\ uout = <<>>
PerfIdle ==
    /\ timeNow = 0
    /\ timers = {}
    /\ timeout = <<>>
    /\ inThrottle = FALSE
    /\ wait = 0
    /\ limitMs = 0
    /\ made = <<>>
    /\ ran = <<>>

----------------------------------------------------------------------------
(* Compression harness: inputs drawn from bounded strings *)

\* Longest input string of the compression harness.
MaxCompressLen == 5

\* Characters of the inputs: a digit, a second digit, a letter and the
\* JSON string delimiter.
CompressAlphabet == {"0", "1", "a", "\""}

RECURSIVE StringsUpTo(_, _)
StringsUpTo(alphabet, n) ==
    IF n = 0 THEN {<<>>}
    ELSE LET shorter == StringsUpTo(alphabet, n - 1)
         IN  shorter \cup {Append(s, c) : s \in {t \in shorter : Len(t) = n - 1},
                                          c \in alphabet}

CompressInit ==
    /\ CompressIdle
    /\ RepairIdle
    /\ ExtractIdle
    /\ CacheIdle
    /\ PageIdle
    /\ FaultIdle
    /\ UtilIdle
    /\ PerfIdle
    /\ RequestIdle

\* A caller picks the serialised text to store.
ChooseText ==
    /\ cpc = "idle"
    /\ \E s \in StringsUpTo(CompressAlphabet, MaxCompressLen) : cin' = s
    /\ cpc' = "ready"
    /\ UNCHANGED <<cout, notCompress>>

\* The text is compressed for storage and decompressed on the way back, with
\* compression enabled as in the exported transactionCache.
RoundTrip ==
    /\ cpc = "ready"
    /\ LET c == compress(TRUE, cin)
       IN  cout' = <<c, decompress(TRUE, c)>>
    /\ cpc' = "done"
    /\ UNCHANGED <<cin, notCompress>>

CompressNext == ChooseText \/ RoundTrip

SpecCompress == CompressInit /\ [][CompressNext]_vars

\* C4: with compression enabled, decompress(compress(x)) = x for every
\* serialised text x (digit sequences and runs of repeated characters
\* included).
C4_RoundTrip ==
    cpc = "done" => (~cout[2].thrown /\ cout[2].text = cin)

----------------------------------------------------------------------------
(* Repair harness: raw texts of the shape prefix + repeated run + suffix *)

\* Longest repeated run of the raw texts.
MaxRun == 14

RepairPrefixes == {<<>>, <<"B">>, <<"B","C">>, <<"E","E","P","8">>, <<"A","B","C","D","E","F">>, <<"a","b">>}
RepairChars == {"6", "0", "A", "C"}
RepairSuffixes == {<<>>, <<"X","Y","Z">>, <<"N","R","J","4","C">>, <<"Q","R","S","T","U","V">>, <<"Z","C","M","F","P","E","G","G">>, <<"7","X","V","6","Z","Z","K","S","M","0">>,
                   <<"h","e","l","l","o"," ","w","o","r","l","d">>, <<"A","B","C","D","E","F","G","H","I","J","K","L","M","N">>}

RawInputs ==
    {p \o Repeat(c, n) \o s :
        p \in RepairPrefixes, c \in RepairChars, n \in 0..MaxRun, s \in RepairSuffixes}

RepairInit ==
    /\ CompressIdle
    /\ RepairIdle
    /\ ExtractIdle
    /\ CacheIdle
    /\ PageIdle
    /\ FaultIdle
    /\ UtilIdle
    /\ PerfIdle
    /\ RequestIdle

\* A text is recovered from the page in the identifier position.
ChooseRaw ==
    /\ rpc = "idle"
    /\ \E s \in RawInputs : rawId' = s
    /\ rpc' = "ready"
    /\ UNCHANGED <<fixedId, notRepair>>

\* The repair engine is applied to it.
Repair ==
    /\ rpc = "ready"
    /\ fixedId' = fixCorruptedTransactionId(rawId)
    /\ rpc' = "done"
    /\ UNCHANGED <<rawId, notRepair>>

RepairNext == ChooseRaw \/ Repair

SpecRepair == RepairInit /\ [][RepairNext]_vars

EEP86556NRJ4C == <<"E","E","P","8","6","5","5","6","N","R","J","4","C">>

\* C9: repair("EEP8" + twelve "6" + "NRJ4C") returns "EEP86556NRJ4C".
C9_HistoricalException ==
    (rpc = "done" /\ rawId = <<"E","E","P","8">> \o Repeat("6", 12) \o <<"N","R","J","4","C">>)
        => fixedId = Some(EEP86556NRJ4C)

\* The positions of raw at which a 13-character [A-Z0-9] substring without
\* a run of six equal characters starts.
EmbeddedStarts(raw) ==
    {i \in 1..(Len(raw) - 12) :
        /\ AllUpperAlnum(Slice(raw, i, i + 12))
        /\ ~HasLongRun(Slice(raw, i, i + 12))}

\* C11: when patterns 1 to 3 yield nothing, repair returns the leftmost
\* 13-character [A-Z0-9] substring of the raw text that holds no run of six
\* or more equal characters, wherever it starts, and null only when the raw
\* text has no such substring.
C11_EmbeddedSubstring ==
    (/\ rpc = "done"
     /\ Len(rawId) >= 13
     /\ RepairRepeated(rawId) = Null
     /\ RepairFlood(rawId) = Null
     /\ RepairZeros(rawId) = Null)
        => fixedId = IF EmbeddedStarts(rawId) = {} THEN Null
                     ELSE Some(Slice(rawId, MinOf(EmbeddedStarts(rawId)),
                                     MinOf(EmbeddedStarts(rawId)) + 12))

\* C12: repair returns null for every raw text shorter than 13 characters,
\* the empty text included.
C12_ShortIsNull ==
    (rpc = "done" /\ Len(rawId) < 13) => fixedId = Null

\* A raw text of 12 characters and the empty text have been through repair.
C12_ShortRepaired ==
    rpc = "done" /\ fixedId = Null /\ Len(rawId) = 12 /\ AllUpperAlnum(rawId)

----------------------------------------------------------------------------
(* Extraction harness: pages of sample containers *)

\* Most containers on a page.
MaxContainers == 2

Node(kind, text) == [kind |-> kind, text |-> text]
Anchor(text, href, innerText, dataId) ==
    [kind |-> "anchor", text |-> text, href |-> href, innerText |-> innerText,
     dataId |-> dataId, id |-> Null, value |-> Null]

\* Texts found in the anchor: empty, a clean identifier in whitespace, the
\* run-length corruption of the comment, a zero flood, and plain words.
AnchorTexts == {<<>>, <<" ">> \o EEP86556NRJ4C \o <<"\n">>, <<"A","A","A","A","A","A","1","2","3","4","5","6","7">>,
                <<"E","E","P","8">> \o Repeat("6", 11) \o <<"N","R","J","4","C">>,
                Repeat("0", 6) \o <<"h","e","l","l","o"," ","w","o","r","l","d">>,
                <<"V","i","e","w">>}
AnchorHrefs == {Null, Some(<<>>), Some(<<"/","t","/","0","8","0","7","X","V","6","Z","Z","K","S","M","0">>), Some(<<"/","t","/","a","b","c">>)}
AnchorInnerTexts == {Null, Some(<<"B","C","C","C","C","C","C","C","C","C","C","C","C","Z","C","M","F","P","E","G","G">>),
                     Some(EEP86556NRJ4C)}
AnchorDataIds == {Null, Some(<<"B","C","6","1","C","Z","C","M","F","P","E","G","G">>)}

SampleAnchors ==
    {Anchor(t, h, i, d) :
        t \in AnchorTexts, h \in AnchorHrefs, i \in AnchorInnerTexts, d \in AnchorDataIds}

\* The fields before the anchor: both subtitles and the amount, only the
\* customer, or nothing.
SampleFields ==
    { << Node("subtitle", <<"J","o","h","n"," ","D","o","e">>), Node("subtitle", <<"J","a","n"," ","5">>),
         Node("amount", <<"$","1","2",".","5","0">>) >>,
      << Node("subtitle", <<" ">>) >>,
      << >> }

\* Text after the anchor.
SampleTails == { << >>, << Node("text", <<"I","D"," ","1","2","3","4","5","6","7","8","9","0","A","B","C">>) >> }

SampleContainers ==
    {f \o a \o tl :
        f \in SampleFields,
        a \in {<<>>} \cup {<<x>> : x \in SampleAnchors},
        tl \in SampleTails}

\* The containers that follow the first one on a page.
MoreContainers ==
    { << Node("subtitle", <<"J","a","n","e"," ","S","m","i","t","h">>), Node("subtitle", <<"2","/","3">>), Node("amount", <<"$","1",",","0","0","0",".","0","0">>),
         Anchor(<<"A","B","C","D","E","F","G","H","I","J","K","L","M">>, Null, Null, Null) >>,
      << Node("text", <<"N","/","A">>) >> }

RECURSIVE SeqsUpTo(_, _)
SeqsUpTo(S, n) ==
    IF n = 0 THEN {<<>>}
    ELSE LET shorter == SeqsUpTo(S, n - 1)
         IN  shorter \cup {Append(s, x) : s \in {q \in shorter : Len(q) = n - 1}, x \in S}

SamplePages ==
    {<<>>} \cup {<<c>> \o rest : c \in SampleContainers,
                                 rest \in SeqsUpTo(MoreContainers, MaxContainers - 1)}

ExtractInit ==
    /\ CompressIdle
    /\ RepairIdle
    /\ ExtractIdle
    /\ CacheIdle
    /\ PageIdle
    /\ FaultIdle
    /\ UtilIdle
    /\ PerfIdle
    /\ RequestIdle

\* The target page is rendered.
LoadPage ==
    /\ xpc = "idle"
    /\ \E pg \in SamplePages : page' = pg
    /\ xpc' = "ready"
    /\ UNCHANGED <<extracted, notExtract>>

\* The extractor is injected and run.
Extract ==
    /\ xpc = "ready"
    /\ extracted' = extractTransactionDataFromPage(page)
    /\ xpc' = "done"
    /\ UNCHANGED <<page, notExtract>>

\* The user asks again while the page has not changed: the extractor is
\* injected and run a second time.
ExtractAgain ==
    /\ xpc = "done"
    /\ extracted' = extractTransactionDataFromPage(page)
    /\ xpc' = "again"
    /\ UNCHANGED <<page, notExtract>>

ExtractNext == LoadPage \/ Extract \/ ExtractAgain

SpecExtract == ExtractInit /\ [][ExtractNext]_vars

IsIdentifier(s) == Len(s) = IdLength /\ AllUpperAlnum(s)

\* C10: every transactionId produced by extraction is "N/A" or 13 characters
\* of [A-Z0-9], whichever method or repair strategy produced it.
C10_IdShape ==
    xpc = "done" =>
        \A i \in 1..Len(extracted) :
            \/ extracted[i].transactionId = NotAvailable
            \/ IsIdentifier(extracted[i].transactionId)

\* C13: whatever a container lacks, extraction yields a record for it and
\* for every other container, each with the four fields as non-empty
\* strings: 'No customer selected' for a missing customer and 'N/A' for a
\* missing date, amount or transaction link.
C13_SentinelFields ==
    xpc = "done" =>
        /\ Len(extracted) = Len(page)
        /\ \A i \in 1..Len(extracted) :
              /\ DOMAIN extracted[i] = {"customer", "date", "amount", "transactionId"}
              /\ extracted[i].customer # <<>>
              /\ extracted[i].date # <<>>
              /\ extracted[i].amount # <<>>
              /\ extracted[i].transactionId # <<>>
              /\ (\A k \in 1..Len(page[i]) : page[i][k].kind # "subtitle")
                    => extracted[i].customer = NoCustomer
              /\ Cardinality({k \in 1..Len(page[i]) : page[i][k].kind = "subtitle"}) < 2
                    => extracted[i].date = NotAvailable
              /\ (\A k \in 1..Len(page[i]) : page[i][k].kind # "amount")
                    => extracted[i].amount = NotAvailable
              /\ (\A k \in 1..Len(page[i]) : page[i][k].kind # "anchor")
                    => extracted[i].transactionId = NotAvailable

\* A page of two containers, the first with nothing in it but text, has
\* been extracted.
C13_BareContainer ==
    /\ xpc = "done"
    /\ Len(page) = 2
    /\ \A k \in 1..Len(page[1]) : page[1][k].kind = "text"
    /\ extracted[1].customer = NoCustomer
    /\ extracted[1].transactionId = NotAvailable
    /\ extracted[2].customer # NoCustomer

\* C14: extraction returns one record per container, the i-th record being
\* that of the i-th container in document order, and the empty list for a
\* page without containers.
C14_OnePerContainer ==
    xpc = "done" =>
        /\ Len(extracted) = Len(page)
        /\ \A i \in 1..Len(page) : extracted[i] = ExtractContainer(page[i])
        /\ page = <<>> => extracted = <<>>

\* A page of two containers with different records has been extracted.
C14_TwoInOrder ==
    xpc = "done" /\ Len(page) = 2 /\ extracted[1] # extracted[2]

----------------------------------------------------------------------------
(* The two-tier cache shared by the two surfaces *)

\* Steps of one behaviour of the cache: operations, reopenings and ticks.
MaxSteps == 3
\* Instants of the clock beyond the ttl that a behaviour can reach.
MaxLate == 1

\* The store of a test of the module, built with a small memory tier and
\* without compression.
SmallStore == TransactionCache([ttl |-> 0, maxEntries |-> 1, enableCompression |-> FALSE])

Txn(customer, date, amount, transactionId) ==
    JObj(<< Field(<<"c","u","s","t","o","m","e","r">>, JStr(customer)),
            Field(<<"d","a","t","e">>, JStr(date)),
            Field(<<"a","m","o","u","n","t">>, JStr(amount)),
            Field(<<"t","r","a","n","s","a","c","t","i","o","n","I","d">>, JStr(transactionId)) >>)

\* The transaction lists the surfaces cache.
DataA == JArr(<< Txn(<<"A","l">>, <<"1","/","2">>, <<"$","5">>, <<"7","X","V","6","Z","Z","K","S","M","0","A","B","C">>) >>)
DataB == JArr(<< Txn(<<"B","o">>, <<"1","/","3">>, <<"$","7">>, <<"E","E","P","8","6","5","5","6","N","R","J","4","C">>) >>)
SampleData == {DataA, DataB}

UrlA == <<"h","t","t","p","s",":","/","/","p","t",".","i","o","/","a">>
UrlQ == <<"h","t","t","p","s",":","/","/","p","t",".","i","o","/","a","?","p","=","2">>
\* The urls passed to set, get and clear.
SampleUrls == {UrlA, UrlQ}
\* What getCurrentUrl() gives when no url is passed: the url of the active
\* tab, or 'default'.
TabUrls == {DefaultUrl}

\* The url argument and the currentUrl it resolves to.
UrlChoices ==
    {[url |-> Some(u), currentUrl |-> u] : u \in SampleUrls}
        \cup {[url |-> Null, currentUrl |-> u] : u \in TabUrls}

\* The instants the clock shows: the start and one millisecond later, and
\* the instants that are the ttl, and up to MaxLate more milliseconds, after
\* the start.
Instants ==
    {StartTime, StartTime + 1} \cup {StartTime + defaultTTL + d : d \in 0..MaxLate}

CacheInit ==
    /\ CompressIdle
    /\ RepairIdle
    /\ ExtractIdle
    /\ PageIdle
    /\ FaultIdle
    /\ UtilIdle
    /\ PerfIdle
    /\ RequestIdle
    /\ clock = StartTime
    /\ chromeStorage = <<>>
    /\ memoryCache = [s \in Surfaces |-> <<>>]
    /\ cacheOptions \in {transactionCache, SmallStore}
    /\ steps = 0
    /\ last = NoOperation

\* The positions of the memory tier whose entry holds the list data for url.
EntriesFor(mem, url, data) ==
    {i \in 1..Len(mem) : /\ Prop(mem[i].entry, <<"u","r","l">>) = JStr(url)
                         /\ Prop(mem[i].entry, <<"d","a","t","a">>) = data}

\* History: whether the memory tier holds an earlier write of data for url.
HeldBefore(mem, url, data, now) ==
    \E i \in EntriesFor(mem, url, data) : mem[i].at < now

\* A surface caches one of the lists datas: set(data, url), as one of at
\* most limit steps. The record of the call says in found whether the
\* surface held an earlier write of the same list for the same url.
SetWithin(datas, limit) ==
    /\ steps < limit
    /\ \E s \in Surfaces, data \in datas, c \in UrlChoices :
        LET r == CacheSet(memoryCache[s], chromeStorage, cacheOptions, clock, data,
                          c.currentUrl)
        IN  /\ memoryCache' = [memoryCache EXCEPT ![s] = r.mem]
            /\ chromeStorage' = r.store
            /\ last' = Operation("set", s, c.url, c.currentUrl, data, ArgumentObject,
                                 HeldBefore(memoryCache[s], c.currentUrl, data, clock),
                                 "none", clock, FALSE, JUndef, NoObject)
    /\ steps' = steps + 1
    /\ UNCHANGED <<clock, cacheOptions, notCache>>

SetData(datas) == SetWithin(datas, MaxSteps)

Set == SetData(SampleData)

\* A surface reads the cache: get(url) with one of the url choices, the
\* storage enumerating its keys in some order, as one of at most limit steps.
GetWithin(choices, limit) ==
    /\ steps < limit
    /\ \E s \in Surfaces, c \in choices, order \in Orders(OwnKeys(chromeStorage)) :
        LET r == CacheGet(memoryCache[s], chromeStorage, cacheOptions, clock, c.url,
                          c.currentUrl, order)
            follows == /\ last.op = "set"
                       /\ last.surface = s
                       /\ last.url = c.url
                       /\ last.currentUrl = c.currentUrl
                       /\ last.at = clock
        IN  /\ memoryCache' = [memoryCache EXCEPT ![s] = r.mem]
            /\ last' = Operation("get", s, c.url, c.currentUrl, r.data, r.ref,
                                 r.found, r.tier, r.at, memoryCache[s] = <<>>,
                                 IF follows THEN last.data ELSE JUndef,
                                 IF follows THEN last.ref ELSE NoObject)
    /\ steps' = steps + 1
    /\ UNCHANGED <<clock, chromeStorage, cacheOptions, notCache>>

Get == GetWithin(UrlChoices, MaxSteps)

\* A surface clears the cache: clear(url).
Clear ==
    /\ steps < MaxSteps
    /\ \E s \in Surfaces, url \in {Null} \cup {Some(u) : u \in SampleUrls} :
        LET r == CacheClear(memoryCache[s], chromeStorage, url)
        IN  /\ memoryCache' = [memoryCache EXCEPT ![s] = r.mem]
            /\ chromeStorage' = r.store
            /\ last' = Operation("clear", s, url, <<>>, JUndef, NoObject,
                                 FALSE, "none", clock, FALSE, JUndef, NoObject)
    /\ steps' = steps + 1
    /\ UNCHANGED <<clock, cacheOptions, notCache>>

\* A surface sweeps the cache: cleanup().
Cleanup ==
    /\ steps < MaxSteps
    /\ \E s \in Surfaces :
        LET r == CacheCleanup(memoryCache[s], chromeStorage, cacheOptions, clock)
        IN  /\ memoryCache' = [memoryCache EXCEPT ![s] = r.mem]
            /\ chromeStorage' = r.store
            /\ last' = Operation("cleanup", s, Null, <<>>, JUndef, NoObject,
                                 FALSE, "none", clock, FALSE, JUndef, NoObject)
    /\ steps' = steps + 1
    /\ UNCHANGED <<clock, cacheOptions, notCache>>

\* A surface is closed and opened again: its page loads a new instance of
\* the store, with an empty memory tier.
Reopen ==
    /\ steps < MaxSteps
    /\ \E s \in Surfaces :
        /\ memoryCache[s] # <<>>
        /\ memoryCache' = [memoryCache EXCEPT ![s] = <<>>]
    /\ last' = NoOperation
    /\ steps' = steps + 1
    /\ UNCHANGED <<clock, chromeStorage, cacheOptions, notCache>>

\* Time passes, as one of at most limit steps.
TickWithin(limit) ==
    /\ steps < limit
    /\ \E t \in Instants :
        /\ t > clock
        /\ clock' = t
    /\ last' = NoOperation
    /\ steps' = steps + 1
    /\ UNCHANGED <<chromeStorage, memoryCache, cacheOptions, notCache>>

Tick == TickWithin(MaxSteps)

CacheNext == Set \/ Get \/ Clear \/ Cleanup \/ Reopen \/ Tick

SpecCache == CacheInit /\ [][CacheNext]_vars

\* A list with an amount written in digits only.
DataDigits == JArr(<< Txn(<<"A","l">>, <<"1","/","2">>, <<"5">>, <<"7","X","V","6","Z","Z","K","S","M","0","A","B","C">>) >>)

\* The exported store, caching lists with and without such an amount.
DecodeInit ==
    /\ CacheInit
    /\ cacheOptions = transactionCache

SetAny == SetData({DataA, DataDigits})

DecodeNext == SetAny \/ Get

SpecDecode == DecodeInit /\ [][DecodeNext]_vars

\* A store with a memory tier of one entry, used by both surfaces for one
\* list under two urls.
MaxTierSteps == 4

TierInit ==
    /\ CacheInit
    /\ cacheOptions = SmallStore

TierSet == SetWithin({DataA}, MaxTierSteps)

TierGet == GetWithin({[url |-> Null, currentUrl |-> DefaultUrl]}, MaxTierSteps)

TierTick == TickWithin(MaxTierSteps)

TierNext == TierSet \/ TierGet \/ TierTick

SpecTier == TierInit /\ [][TierNext]_vars

\* C28: after every operation of the store the memory tier holds at most
\* maxEntries entries.
C28_MemoryCapped ==
    \A s \in Surfaces : Len(memoryCache[s]) <= cacheOptions.maxEntries

\* The own keys whose value JSON.parse(this.decompress(...)) rejects.
Undecodable(store, opts) ==
    {k \in OwnKeys(store) : store[k].text # <<>> /\ ~Decode(opts, store[k].text).ok}

\* The own keys whose value decodes to an unexpired entry.
ValidKeys(store, opts, now) ==
    {k \in OwnKeys(store) :
        /\ store[k].text # <<>>
        /\ Decode(opts, store[k].text).ok
        /\ ~isExpired(Decode(opts, store[k].text).val, now, opts.ttl)}

\* C25: a get that meets a persisted entry that fails to decode treats it
\* as a miss for that entry only and removes it from storage: a valid
\* unexpired entry under another key is still returned, and a get that
\* returns nothing has scanned, and removed, every entry that fails to decode.
C25_DecodeFailureSkipped ==
    [][(/\ last'.op = "get"
        /\ steps' = steps + 1
        /\ last'.url = Null
        /\ Undecodable(chromeStorage, cacheOptions) # {})
          => /\ ValidKeys(chromeStorage, cacheOptions, clock) # {} => last'.found
             /\ ~last'.found => Undecodable(chromeStorage', cacheOptions) = {}]_vars

\* Operations of the store in one behaviour with failing calls.
MaxFaultSteps == 2

\* set(data, url) while calls fail.
FaultySet ==
    /\ steps < MaxFaultSteps
    /\ \E s \in Surfaces, data \in SampleData, c \in UrlChoices, f \in SetFaults :
        \E w \in {CacheSet(memoryCache[s], chromeStorage, cacheOptions, clock, data,
                            IF c.url = Null THEN getCurrentUrl(c.currentUrl, f.tabs)
                            ELSE c.currentUrl)} :
           \E r \in {FaultySetResult(memoryCache[s], chromeStorage, f, w)} :
              /\ memoryCache' = [memoryCache EXCEPT ![s] = r.mem]
              /\ chromeStorage' = r.store
              /\ faulty' = Faulty("set", f, (c.url = Null /\ f.tabs) \/ f.writes,
                                  r.thrown \/ (c.url = Null /\ getCurrentUrlThrows(f.tabs)),
                                  FALSE, FALSE)
    /\ last' = NoOperation
    /\ steps' = steps + 1
    /\ UNCHANGED <<clock, cacheOptions, varsCompress, varsRepair, varsExtract, varsPage,
                   varsRequest, varsUtil, varsPerf>>

\* get(url), and has(url), which is get(url) !== null, while calls fail.
FaultyGet ==
    /\ steps < MaxFaultSteps
    /\ \E s \in Surfaces, c \in UrlChoices, f \in GetFaults,
          order \in Orders(OwnKeys(chromeStorage)) :
        \E cur \in {IF c.url = Null THEN getCurrentUrl(c.currentUrl, f.tabs)
                     ELSE c.currentUrl} :
           \E r \in {CacheGet(memoryCache[s], Readable(chromeStorage, f), cacheOptions,
                               clock, c.url, cur,
                               IF f.keys \/ f.reads THEN <<>> ELSE order)} :
              /\ memoryCache' = [memoryCache EXCEPT ![s] = r.mem]
              /\ faulty' = Faulty("get", f,
                                  \/ (c.url = Null /\ f.tabs)
                                  \/ (r.tier # "memory" /\ f.keys)
                                  \/ (r.tier # "memory" /\ f.reads
                                         /\ OwnKeys(chromeStorage) # {}),
                                  c.url = Null /\ getCurrentUrlThrows(f.tabs),
                                  r.tier = "memory", r.found)
    /\ last' = NoOperation
    /\ steps' = steps + 1
    /\ UNCHANGED <<clock, chromeStorage, cacheOptions, varsCompress, varsRepair,
                   varsExtract, varsPage, varsRequest, varsUtil, varsPerf>>

\* clear(url) while calls fail.
FaultyClear ==
    /\ steps < MaxFaultSteps
    /\ \E s \in Surfaces, url \in {Null} \cup {Some(u) : u \in SampleUrls},
          f \in ClearFaults :
        \E c \in {CacheClear(memoryCache[s], Listed(chromeStorage, f), url)} :
           \E r \in {FaultySweepResult(chromeStorage, f, c,
                                        Removed(Listed(chromeStorage, f), c.store))} :
              /\ memoryCache' = [memoryCache EXCEPT ![s] = r.mem]
              /\ chromeStorage' = r.store
              /\ faulty' = Faulty("clear", f,
                                  f.keys \/ (f.removes /\ OwnKeys(chromeStorage) # {}),
                                  r.thrown, FALSE, FALSE)
    /\ last' = NoOperation
    /\ steps' = steps + 1
    /\ UNCHANGED <<clock, cacheOptions, varsCompress, varsRepair, varsExtract, varsPage,
                   varsRequest, varsUtil, varsPerf>>

\* cleanup() while calls fail.
FaultyCleanup ==
    /\ steps < MaxFaultSteps
    /\ \E s \in Surfaces, f \in CleanupFaults :
        \E c \in {CacheCleanup(memoryCache[s], Readable(chromeStorage, f), cacheOptions,
                                clock)} :
           \E r \in {FaultySweepResult(chromeStorage, f, c,
                                        Removed(Readable(chromeStorage, f), c.store))} :
              /\ memoryCache' = [memoryCache EXCEPT ![s] = r.mem]
              /\ chromeStorage' = r.store
              /\ faulty' = Faulty("cleanup", f,
                                  f.keys \/ ((f.reads \/ f.removes)
                                               /\ OwnKeys(chromeStorage) # {}),
                                  r.thrown, FALSE, FALSE)
    /\ last' = NoOperation
    /\ steps' = steps + 1
    /\ UNCHANGED <<clock, cacheOptions, varsCompress, varsRepair, varsExtract, varsPage,
                   varsRequest, varsUtil, varsPerf>>

\* getStats() while calls fail: it reads the keys and the memory tier.
FaultyStats ==
    /\ steps < MaxFaultSteps
    /\ \E f \in StatsFaults :
        faulty' = Faulty("getStats", f, f.keys, getStorageKeysThrows(f.keys), FALSE, FALSE)
    /\ last' = NoOperation
    /\ steps' = steps + 1
    /\ UNCHANGED <<clock, chromeStorage, memoryCache, cacheOptions, varsCompress,
                   varsRepair, varsExtract, varsPage, varsRequest, varsUtil, varsPerf>>

FaultNext == FaultySet \/ FaultyGet \/ FaultyClear \/ FaultyCleanup \/ FaultyStats

SpecFaults == CacheInit /\ [][FaultNext]_vars

Elapsed(at) == clock - at > cacheOptions.ttl

\* The storage keys that hold an unexpired write made for the url u.
FreshWrites(u) ==
    {k \in OwnKeys(chromeStorage) :
        chromeStorage[k].url = u /\ ~Elapsed(chromeStorage[k].at)}

\* C1: set(data, url) immediately followed by get(url) on the same store
\* returns a value deep-equal to the data just written, and the value is
\* not the object the caller passed.
C1_SetThenGet ==
    (last.op = "get" /\ last.url # Null /\ last.wroteRef = ArgumentObject)
        => (last.found /\ last.data = last.wrote /\ last.ref # last.wroteRef)

\* C2: get never returns the data of an entry for which now - timestamp >
\* ttl, from the memory tier or from the persistent tier.
C2_NoExpiredData ==
    (last.op = "get" /\ last.found) => ~Elapsed(last.at)

\* C3: a store whose memory tier is empty, calling get(url) while an
\* unexpired write for that url is in the persistent tier, receives the
\* data of such a write from the persistent tier, and the entry is then in
\* its memory tier.
C3_ColdStart ==
    (last.op = "get" /\ last.url # Null /\ last.cold /\ FreshWrites(last.currentUrl) # {})
        => /\ last.found
           /\ last.tier = "storage"
           /\ \E k \in FreshWrites(last.currentUrl) :
                /\ last.data = chromeStorage[k].data
                /\ \E i \in 1..Len(memoryCache[last.surface]) :
                     Prop(memoryCache[last.surface][i].entry, <<"d","a","t","a">>)
                         = chromeStorage[k].data

\* C6: get() with no url on a store whose memory tier is empty returns the
\* data of the most recent write, the one under the latest key, while that
\* write is unexpired.
C6_LatestWrite ==
    (/\ last.op = "get"
     /\ last.url = Null
     /\ last.cold
     /\ LatestKey \in DOMAIN chromeStorage
     /\ ~Elapsed(chromeStorage[LatestKey].at))
        => (last.found /\ last.data = chromeStorage[LatestKey].data)

\* The key under which the set recorded in op put its entry in the memory
\* tier.
WrittenKey(op) == generateKey(op.currentUrl, Some(generateContentHash(op.data)))

\* The timestamp of the entry of key in the memory tier mem (that of an
\* entry written at the instant now when mem has no such key).
StampOfKey(mem, key, now) ==
    IF \E i \in 1..Len(mem) : mem[i].key = key
    THEN StampOf(mem[CHOOSE i \in 1..Len(mem) : mem[i].key = key].entry)
    ELSE TimeDigits(now)

MemoryKeys(mem) == {mem[i].key : i \in 1..Len(mem)}

\* A set that writes a new key into the memory tier mem, which holds
\* maxEntries unexpired entries, leaves the tier after with maxEntries
\* entries: all of them but one, and none of those left is older than the
\* one missing.
EvictsOldest(mem, after, key, now, opts) ==
    (/\ Len(mem) = opts.maxEntries
     /\ key \notin MemoryKeys(mem)
     /\ \A i \in 1..Len(mem) : ~isExpired(mem[i].entry, now, opts.ttl))
        => /\ Len(after) = opts.maxEntries
           /\ MemoryKeys(after) \subseteq MemoryKeys(mem) \cup {key}
           /\ \E gone \in (MemoryKeys(mem) \cup {key}) \ MemoryKeys(after) :
                /\ MemoryKeys(after) = (MemoryKeys(mem) \cup {key}) \ {gone}
                /\ \A k \in MemoryKeys(after) :
                     /\ ~Earlier(StampOfKey(after, k, now), StampOfKey(mem, gone, now))
                     /\ StampOfKey(after, k, now) = StampOfKey(mem, k, now)

C20_CleanupSweeps ==
    last.op = "cleanup" =>
        /\ \A i \in 1..Len(memoryCache[last.surface]) :
              ~Elapsed(memoryCache[last.surface][i].at)
        /\ \A k \in OwnKeys(chromeStorage) :
              /\ ~Elapsed(chromeStorage[k].at)
              /\ Decode(cacheOptions, chromeStorage[k].text).ok

\* The url for which the data that a get returns was set: that of the memory
\* entry at position m, or that of the write under the storage key of the
\* scan; Null when the get returns nothing.
HitUrl(mem, store, m, scan) ==
    IF m # 0 THEN Some(Prop(mem[m].entry, <<"u","r","l">>).s)
    ELSE IF scan.kind = "hit" THEN Some(store[scan.key].url)
    ELSE Null

UrlOfGet(mem, store, opts, now, url, currentUrl, order) ==
    HitUrl(mem, store, MemoryHit(mem, opts, now, url, currentUrl),
           ScanStorage(order, 1,
               [k \in OwnKeys(store) |-> CheckKey(k, store, opts, now, url, currentUrl)]))

\* No get, with or without a url and on either store, returns data that
\* was set for the url u, the memory tiers being mems and the storage store.
NoGetReturns(mems, store, u) ==
    \A s \in Surfaces, c \in UrlChoices, order \in Orders(OwnKeys(store)) :
        UrlOfGet(mems[s], store, cacheOptions, clock, c.url, c.currentUrl, order) # Some(u)

\* What is kept for urls other than u by a step of the store of surface s:
\* the writes in the storage and the entries of the memory tier.
OthersKept(s, u) ==
    /\ \A k \in OwnKeys(chromeStorage) :
          chromeStorage[k].url # u =>
              (k \in DOMAIN chromeStorage' /\ chromeStorage'[k] = chromeStorage[k])
    /\ \A i \in 1..Len(memoryCache[s]) :
          Prop(memoryCache[s][i].entry, <<"u","r","l">>) # JStr(u) =>
              \E j \in 1..Len(memoryCache'[s]) : memoryCache'[s][j] = memoryCache[s][i]

\* C21: after clear(url) no get, with or without a url and on any store,
\* returns data that was set for that url, and what was set for other urls
\* is kept; after clear() the store owns no key and its memory tier is
\* empty.
C21_ClearScoped ==
    [][(last'.op = "clear" /\ steps' = steps + 1)
          => IF last'.url # Null
             THEN /\ NoGetReturns(memoryCache', chromeStorage', last'.url[1])
                  /\ OthersKept(last'.surface, last'.url[1])
             ELSE /\ OwnKeys(chromeStorage') = {}
                  /\ memoryCache'[last'.surface] = <<>>]_vars

----------------------------------------------------------------------------
(* The popup and the detached windows at work *)

\* User actions and advances of the clock in one behaviour of the page.
MaxPageSteps == 5
\* Changes of the search term and of the toggles in one behaviour.
MaxEdits == 1

\* What extractTransactionData() gives: it throws (undefined), or returns
\* the list found on the page.
PageResults == {JUndef, EmptyList} \cup SampleData

\* What the user types in the search box.
SearchTerms == {<<>>, <<"a","l">>}

\* The instants the clock of the page shows: the start, and the instant at
\* which a marker written at the start is maxAge old.
PageInstants == {StartTime, StartTime + maxAge}

PageInit ==
    /\ CompressIdle
    /\ RepairIdle
    /\ ExtractIdle
    /\ CacheIdle
    /\ PageIdle
    /\ FaultIdle
    /\ UtilIdle
    /\ PerfIdle
    /\ RequestIdle

\* The window ids not used yet: a window that opens takes the least.
FreeIds == {w \in WindowIds : windows[w].phase = "none"}

\* An action of the user in one window ends the handoffs under way: a
\* window that starts after it does not start right after the ceding.
Settle(wins) ==
    [w \in WindowIds |->
        IF wins[w].phase = "loading" THEN [wins[w] EXCEPT !.handed = Null] ELSE wins[w]]

pageCacheIdle == <<clock, memoryCache, cacheOptions, last>>

\* The user clicks the extension icon: a popup opens.
OpenPopup ==
    /\ steps < MaxPageSteps
    /\ FreeIds # {}
    /\ windows' = [windows EXCEPT ![MinOf(FreeIds)] =
                      Window("popup", "loading", <<>>, InitialView, <<>>,
                             IF ceded.to = "popup" THEN Some(ceded.view) ELSE Null, Null)]
    /\ ceded' = IF ceded.to = "popup" THEN NoHandoff ELSE ceded
    /\ steps' = steps + 1
    /\ UNCHANGED <<edits, syncStorage, instanceMarkers, localSettings, chromeStorage,
                   pageCacheIdle, varsCompress, varsRepair, varsExtract,
                   varsRequest, varsFault, varsUtil, varsPerf>>

\* onMount of a window: preferences, the snapshot of the other mode,
\* loadCachedData when nothing was adopted, transactionCache.cleanup(), and
\* preventMultipleInstances, which writes the instance marker.
Mount ==
    \E w \in WindowIds, order \in Orders(OwnKeys(chromeStorage)) :
        /\ windows[w].phase = "loading"
        /\ \E v1 \in {AdoptSync(windows[w].kind,
                                View(EmptyList, <<>>,
                                     getSetting(localSettings, "privacyMode", FALSE),
                                     getSetting(localSettings, "cloverMode", FALSE)),
                                syncStorage)} :
            /\ NonEmpty(v1.transactions) => order = SomeOrder(OwnKeys(chromeStorage))
            /\ \E l \in {IF NonEmpty(v1.transactions) THEN [view |-> v1, mem |-> <<>>]
                          ELSE loadCachedData(windows[w].kind, v1, <<>>, syncStorage,
                                              chromeStorage, cacheOptions, clock, order)} :
               \E c \in {CacheCleanup(l.mem, chromeStorage, cacheOptions, clock)} :
                  /\ windows' = [windows EXCEPT ![w] =
                         Window(windows[w].kind, "open", TimeDigits(clock), l.view, c.mem,
                                windows[w].handed,
                                IF windows[w].handed # Null THEN Some(l.view) ELSE Null)]
                  /\ chromeStorage' = c.store
        /\ instanceMarkers' = setInstanceMarker(instanceMarkers, windows[w].kind, clock)
        /\ UNCHANGED <<edits, syncStorage, localSettings, ceded, steps, pageCacheIdle,
                       varsCompress, varsRepair, varsExtract,
                   varsRequest, varsFault, varsUtil, varsPerf>>

\* The poll of preventMultipleInstances finds the id of another instance
\* under instance_<type>: the window closes itself.
Poll ==
    \E w \in WindowIds :
        /\ windows[w].phase \in {"open", "closing"}
        /\ instanceMarkers[windows[w].kind] # Null
        /\ instanceMarkers[windows[w].kind][1].id # windows[w].instanceId
        /\ windows' = [windows EXCEPT ![w].phase = "closed"]
        /\ UNCHANGED <<edits, syncStorage, instanceMarkers, localSettings, ceded, steps,
                       chromeStorage, pageCacheIdle, varsCompress, varsRepair, varsExtract,
                   varsRequest, varsFault, varsUtil, varsPerf>>

\* The user asks for the transactions: refresh() or forceRefresh(). What
\* the page holds matters only when the cache is not used or gives nothing.
Refresh ==
    /\ steps < MaxPageSteps
    /\ \E w \in WindowIds, useCache \in BOOLEAN, cur \in TabUrls,
          order \in Orders(OwnKeys(chromeStorage)) :
        /\ windows[w].phase = "open"
        /\ \E g \in {CacheGet(windows[w].mem, chromeStorage, cacheOptions, clock, Null,
                               cur, order)} :
           \E fresh \in IF useCache /\ g.found /\ NonEmpty(g.data)
                        THEN {JUndef} ELSE PageResults :
              \E r \in {RefreshWith(windows[w].view, windows[w].mem, chromeStorage,
                                    cacheOptions, clock, useCache, fresh, cur, g)} :
                 /\ windows' = [Settle(windows) EXCEPT ![w].view = r.view,
                                                       ![w].mem = r.mem]
                 /\ chromeStorage' = r.store
    /\ ceded' = NoHandoff
    /\ steps' = steps + 1
    /\ UNCHANGED <<edits, syncStorage, instanceMarkers, localSettings, pageCacheIdle,
                   varsCompress, varsRepair, varsExtract,
                   varsRequest, varsFault, varsUtil, varsPerf>>

\* The user types in the search box.
SetSearch ==
    /\ steps < MaxPageSteps
    /\ edits < MaxEdits
    /\ edits' = edits + 1
    /\ \E w \in WindowIds, term \in SearchTerms :
        /\ windows[w].phase = "open"
        /\ term # windows[w].view.searchTerm
        /\ windows' = [Settle(windows) EXCEPT ![w].view.searchTerm = term]
    /\ ceded' = NoHandoff
    /\ steps' = steps + 1
    /\ UNCHANGED <<syncStorage, instanceMarkers, localSettings, chromeStorage,
                   pageCacheIdle, varsCompress, varsRepair, varsExtract,
                   varsRequest, varsFault, varsUtil, varsPerf>>

\* togglePrivacyMode()
TogglePrivacy ==
    /\ steps < MaxPageSteps
    /\ edits < MaxEdits
    /\ edits' = edits + 1
    /\ \E w \in WindowIds :
        /\ windows[w].phase = "open"
        /\ windows' = [Settle(windows) EXCEPT
                          ![w].view.privacyMode = ~windows[w].view.privacyMode]
        /\ localSettings' = setSetting(localSettings, "privacyMode",
                                       ~windows[w].view.privacyMode)
    /\ ceded' = NoHandoff
    /\ steps' = steps + 1
    /\ UNCHANGED <<syncStorage, instanceMarkers, chromeStorage, pageCacheIdle,
                   varsCompress, varsRepair, varsExtract,
                   varsRequest, varsFault, varsUtil, varsPerf>>

\* The clover switch of the settings panel.
ToggleClover ==
    /\ steps < MaxPageSteps
    /\ edits < MaxEdits
    /\ edits' = edits + 1
    /\ \E w \in WindowIds :
        /\ windows[w].phase = "open"
        /\ windows' = [Settle(windows) EXCEPT
                          ![w].view.cloverMode = ~windows[w].view.cloverMode]
        /\ localSettings' = setSetting(localSettings, "cloverMode",
                                       ~windows[w].view.cloverMode)
    /\ ceded' = NoHandoff
    /\ steps' = steps + 1
    /\ UNCHANGED <<syncStorage, instanceMarkers, chromeStorage, pageCacheIdle,
                   varsCompress, varsRepair, varsExtract,
                   varsRequest, varsFault, varsUtil, varsPerf>>

\* The user clicks "Open in resizable window" in a popup: detachWindow().
\* When the marker of a detached window is fresh and such a window is
\* found, it is focused and the popup closes. Otherwise the popup makes
\* sure it has transactions (refresh()), syncs them as mode 'popup', writes
\* detachedModeData, creates the detached window and closes.
DetachWindow ==
    /\ steps < MaxPageSteps
    /\ \E w \in WindowIds, fresh \in PageResults, cur \in TabUrls,
          order \in Orders(OwnKeys(chromeStorage)) :
        /\ windows[w].kind = "popup"
        /\ windows[w].phase = "open"
        /\ IF /\ checkInstanceExists(instanceMarkers, "detached", clock)
              /\ findExistingDetachedWindow(windows) # {}
           THEN /\ fresh = JUndef
                /\ order = SomeOrder(OwnKeys(chromeStorage))
                /\ windows' = [Settle(windows) EXCEPT ![w].phase = "closed"]
                /\ UNCHANGED <<syncStorage, chromeStorage>>
           ELSE /\ FreeIds # {}
                /\ NonEmpty(windows[w].view.transactions) =>
                      (fresh = JUndef /\ order = SomeOrder(OwnKeys(chromeStorage)))
                /\ \E r \in {IF NonEmpty(windows[w].view.transactions)
                              THEN [view |-> windows[w].view, mem |-> windows[w].mem,
                                    store |-> chromeStorage]
                              ELSE refresh(windows[w].view, windows[w].mem, chromeStorage,
                                           cacheOptions, clock, TRUE, fresh, cur, order)} :
                   \E s \in {IF NonEmpty(r.view.transactions)
                             THEN syncDataBetweenModes("popup", r.view, r.mem, r.store,
                                                       syncStorage, cacheOptions, clock, cur)
                             ELSE [mem |-> r.mem, store |-> r.store, sync |-> syncStorage]} :
                      /\ windows' = [Settle(windows) EXCEPT
                            ![w] = [windows[w] EXCEPT !.phase = "closed", !.view = r.view,
                                                      !.mem = s.mem],
                            ![MinOf(FreeIds)] =
                                Window("detached", "loading", <<>>, InitialView, <<>>,
                                       IF NonEmpty(r.view.transactions)
                                       THEN Some(r.view) ELSE Null, Null)]
                      /\ syncStorage' =
                            IF NonEmpty(r.view.transactions)
                            THEN [s.sync EXCEPT
                                     !.detachedModeData = Some(Snapshot(r.view, Null))]
                            ELSE syncStorage
                      /\ chromeStorage' = s.store
    /\ ceded' = NoHandoff
    /\ steps' = steps + 1
    /\ UNCHANGED <<edits, instanceMarkers, localSettings, pageCacheIdle,
                   varsCompress, varsRepair, varsExtract,
                   varsRequest, varsFault, varsUtil, varsPerf>>

\* The user clicks "Close detached window": reattachWindow(). The window
\* syncs as mode 'detached', clears the detached instance marker, removes
\* detachedModeData and sets the timer that closes it.
ReattachWindow ==
    /\ steps < MaxPageSteps
    /\ \E w \in WindowIds, cur \in TabUrls :
        /\ windows[w].kind = "detached"
        /\ windows[w].phase = "open"
        /\ \E s \in {syncDataBetweenModes("detached", windows[w].view, windows[w].mem,
                                           chromeStorage, syncStorage, cacheOptions,
                                           clock, cur)} :
            /\ windows' = [Settle(windows) EXCEPT ![w].phase = "closing", ![w].mem = s.mem]
            /\ chromeStorage' = s.store
            /\ syncStorage' = [s.sync EXCEPT !.detachedModeData = Null]
        /\ ceded' = IF NonEmpty(windows[w].view.transactions)
                    THEN [to |-> "popup", view |-> windows[w].view]
                    ELSE NoHandoff
    /\ instanceMarkers' = clearInstanceMarker(instanceMarkers, "detached")
    /\ steps' = steps + 1
    /\ UNCHANGED <<edits, localSettings, pageCacheIdle, varsCompress, varsRepair, varsExtract,
                   varsRequest, varsFault, varsUtil, varsPerf>>

\* The timer of reattachWindow fires: window.close().
FinishClose ==
    \E w \in WindowIds :
        /\ windows[w].phase = "closing"
        /\ windows' = [windows EXCEPT ![w].phase = "closed"]
        /\ UNCHANGED <<edits, syncStorage, instanceMarkers, localSettings, ceded, steps,
                       chromeStorage, pageCacheIdle, varsCompress, varsRepair, varsExtract,
                   varsRequest, varsFault, varsUtil, varsPerf>>

\* The user closes a window (a popup also closes when it loses the focus).
CloseWindow ==
    /\ steps < MaxPageSteps
    /\ \E w \in WindowIds :
        /\ windows[w].phase = "open"
        /\ windows' = [windows EXCEPT ![w].phase = "closed"]
    /\ steps' = steps + 1
    /\ UNCHANGED <<edits, syncStorage, instanceMarkers, localSettings, ceded,
                   chromeStorage, pageCacheIdle, varsCompress, varsRepair, varsExtract,
                   varsRequest, varsFault, varsUtil, varsPerf>>

\* Time passes.
Elapse ==
    /\ steps < MaxPageSteps
    /\ \E t \in PageInstants :
        /\ t > clock
        /\ clock' = t
    /\ steps' = steps + 1
    /\ UNCHANGED <<varsPage, chromeStorage, memoryCache, cacheOptions, last,
                   varsCompress, varsRepair, varsExtract,
                   varsRequest, varsFault, varsUtil, varsPerf>>

PageNext ==
    \/ OpenPopup \/ Mount \/ Poll \/ Refresh \/ SetSearch \/ TogglePrivacy \/ ToggleClover
    \/ DetachWindow \/ ReattachWindow \/ FinishClose \/ CloseWindow \/ Elapse

SpecPage == PageInit /\ [][PageNext]_vars

\* The instance protocol alone: the windows open, mount, poll, detach,
\* reattach and close; what they show is left as onMount and detachWindow
\* make it.
InstanceNext ==
    \/ OpenPopup \/ Mount \/ Poll \/ DetachWindow \/ ReattachWindow
    \/ FinishClose \/ CloseWindow \/ Elapse

\* Every window opened has run onMount.
AllMounted == \A w \in WindowIds : windows[w].phase # "loading"

\* setInterval runs the poll and setTimeout the closing timer: each happens
\* once it can. The page load runs onMount: no window stays loading for
\* ever, which is stated on the states (again and again every window
\* opened has been mounted) and not as WF_vars(Mount).
SpecInstanceFair ==
    /\ PageInit
    /\ [][InstanceNext]_vars
    /\ WF_vars(Poll)
    /\ WF_vars(FinishClose)
    /\ []<>AllMounted

\* The windows of a kind that are on screen.
Live(kind) ==
    {w \in WindowIds :
        windows[w].kind = kind /\ windows[w].phase \in {"loading", "open", "closing"}}

C7_OneOfAKind ==
    <>[](\A kind \in Surfaces : Cardinality(Live(kind)) <= 1)

\* C8: while a detached window is open its marker is fresh, that is
\* checkInstanceExists('detached') is true, and there is no second detached
\* window.
C8_MarkerFresh ==
    (\E w \in WindowIds : windows[w].kind = "detached" /\ windows[w].phase = "open")
        => /\ checkInstanceExists(instanceMarkers, "detached", clock)
           /\ Cardinality(Live("detached")) <= 1

----------------------------------------------------------------------------
(* One surface and its extraction calls *)

\* Clicks and changes of the tabs in one behaviour of the surface.
MaxClicks == 4

AppUrl == <<"h","t","t","p","s",":","/","/","a","p","p",".","p","t",".","i","o","/">>
ExtensionUrl == <<"c","h","r","o","m","e","-","e","x","t","e","n","s","i","o","n",":","/","/","a","b","/","i",".","h","t","m","l">>
PayTrackerTitle == <<"P","a","y","T","r","a","c","k","e","r">>
NewsTitle == <<"N","e","w","s">>
LoadingTitle == <<"p","a","y","t","r","a","c","k","e","r",".","i","o","/","a">>

\* Tabs of the browser: the application, another site, another site whose
\* title names the application, the page of the extension, a tab that is
\* still loading the application (no url committed yet, the title showing
\* the address), a tab of another window, and a tab without an id.
AppTab == Tab(Some(1), Some(AppUrl), Some(NewsTitle), FALSE, TRUE)
NewsTab == Tab(Some(2), Some(UrlA), Some(NewsTitle), TRUE, TRUE)
TitledTab == Tab(Some(3), Some(UrlQ), Some(PayTrackerTitle), FALSE, TRUE)
ExtensionTab == Tab(Some(4), Some(ExtensionUrl), Null, TRUE, TRUE)
LoadingTab == Tab(Some(5), Some(<<>>), Some(LoadingTitle), FALSE, TRUE)
OtherWindowTab == Tab(Some(6), Some(UrlA), Some(NewsTitle), TRUE, FALSE)
NoIdTab == Tab(Null, Some(UrlA), Some(NewsTitle), TRUE, TRUE)
\* The tab of the detached window of the extension, with the title of its page.
DetachedTab == Tab(Some(7), Some(DetachedUrl), Some(PayTrackerTitle), TRUE, TRUE)

\* What chrome.tabs.query({}) may list.
TabLists ==
    { <<NewsTab, AppTab>>,
      <<NewsTab, TitledTab, AppTab>>,
      <<OtherWindowTab, NewsTab, ExtensionTab>>,
      <<DetachedTab, AppTab>>,
      <<ExtensionTab>>,
      <<LoadingTab, NewsTab>>,
      <<NoIdTab>>,
      <<>> }

\* What executeScript gives: the list found on the page.
ScriptResults == {EmptyList} \cup SampleData

RequestInit ==
    /\ CompressIdle
    /\ RepairIdle
    /\ ExtractIdle
    /\ CacheIdle
    /\ PageIdle
    /\ FaultIdle
    /\ UtilIdle
    /\ PerfIdle
    /\ tabList \in TabLists
    /\ \E mode \in Surfaces :
         pane = Pane(mode, "open", FALSE, NoError, EmptyList, FALSE, FALSE)
    /\ calls = <<>>
    /\ injected = <<>>
    /\ resolved = NoResolution
    /\ shown = [c \in Causes |-> Null]
    /\ scraped = {}

requestCacheIdle == <<clock, cacheOptions, last>>
notRequest == <<varsCompress, varsRepair, varsExtract, varsPage, varsFault, varsUtil, varsPerf>>

\* The calls without the i-th.
WithoutCall(list, i) == SubSeq(list, 1, i - 1) \o SubSeq(list, i + 1, Len(list))

\* The surface once refresh has returned to its caller with the component
\* as in p: detachWindow, when it awaited the call, goes on to create the
\* detached window and closes the popup.
Returned(p, detach) == IF detach THEN [p EXCEPT !.phase = "closed"] ELSE p

\* refresh(useCache) as far as its first await of extractTransactionData:
\* error = '', loading = true; on a cache hit the cached list is shown,
\* updateCacheStatus sets hasCache and refresh returns; otherwise the call
\* goes on to extractTransactionData.
StartRefresh(useCache, detach) ==
    \E cur \in {CurrentTabUrl(pane.mode, tabList)},
       order \in Orders(OwnKeys(chromeStorage)) :
       \E g \in {CacheGet(memoryCache[pane.mode], chromeStorage, cacheOptions, clock,
                          Null, cur, order)} :
          IF useCache /\ g.found /\ NonEmpty(g.data)
          THEN \E h \in {CacheGet(g.mem, chromeStorage, cacheOptions, clock, Null, cur,
                                  order)} :
                  /\ pane' = Returned([pane EXCEPT !.error = NoError,
                                                   !.loading = FALSE,
                                                   !.transactions = g.data,
                                                   !.hasCache = h.found], detach)
                  /\ memoryCache' = [memoryCache EXCEPT ![pane.mode] = h.mem]
                  /\ calls' = IF detach THEN <<>> ELSE calls
          ELSE /\ pane' = [pane EXCEPT !.error = NoError, !.loading = TRUE]
               /\ memoryCache' = [memoryCache EXCEPT
                                     ![pane.mode] = IF useCache THEN g.mem ELSE @]
               /\ calls' = Append(calls, Call(useCache, detach, "tabs", 0, <<>>))

\* The catch and finally of refresh for the i-th call, whose extraction
\* threw for the cause given.
Failed(i, cause) ==
    /\ pane' = Returned([pane EXCEPT !.error = ExtractionFailed, !.loading = FALSE],
                        calls[i].detach)
    /\ calls' = IF calls[i].detach THEN <<>> ELSE WithoutCall(calls, i)
    /\ shown' = [shown EXCEPT ![cause] = Some(ExtractionFailed)]

\* The Extract button: on:click={() => refresh()} disabled={loading}
ClickExtract ==
    /\ steps < MaxClicks
    /\ pane.phase = "open"
    /\ ~pane.loading
    /\ StartRefresh(TRUE, FALSE)
    /\ steps' = steps + 1
    /\ UNCHANGED <<tabList, injected, resolved, shown, chromeStorage,
                   requestCacheIdle, notRequest, scraped>>

\* The Force Refresh button of the cache panel, there while
\* cacheStatus.hasCache: forceRefresh() is refresh(false).
ClickForceRefresh ==
    /\ steps < MaxClicks
    /\ pane.phase = "open"
    /\ pane.showCacheControls
    /\ pane.hasCache
    /\ StartRefresh(FALSE, FALSE)
    /\ steps' = steps + 1
    /\ UNCHANGED <<tabList, injected, resolved, shown, chromeStorage,
                   requestCacheIdle, notRequest, scraped>>

\* The button that opens and closes the cache panel.
ToggleCacheControls ==
    /\ steps < MaxClicks
    /\ pane.phase = "open"
    /\ pane' = [pane EXCEPT !.showCacheControls = ~@]
    /\ steps' = steps + 1
    /\ UNCHANGED <<tabList, calls, injected, resolved, shown, chromeStorage,
                   memoryCache, requestCacheIdle, notRequest, scraped>>

\* The detach button of the popup: detachWindow() as far as its await of
\* refresh(). No detached window exists; with a list loaded the window is
\* created at once and the popup closes.
ClickDetach ==
    /\ steps < MaxClicks
    /\ pane.phase = "open"
    /\ pane.mode = "popup"
    /\ ~checkInstanceExists(instanceMarkers, "detached", clock)
    /\ IF NonEmpty(pane.transactions)
       THEN /\ pane' = [pane EXCEPT !.phase = "closed"]
            /\ calls' = <<>>
            /\ UNCHANGED memoryCache
       ELSE StartRefresh(TRUE, TRUE)
    /\ steps' = steps + 1
    /\ UNCHANGED <<tabList, injected, resolved, shown, chromeStorage,
                   requestCacheIdle, notRequest, scraped>>

\* chrome.tabs.query resolves in extractTransactionData for one of the
\* calls: the tab is settled; without a tab id the call throws, else
\* executeScript is called with the tab id.
TabsResolve ==
    /\ pane.phase = "open"
    /\ \E i \in 1..Len(calls) :
        /\ calls[i].stage = "tabs"
        /\ \E t \in {ResolveTab(pane.mode = "detached", tabList)} :
            /\ resolved' = Resolution(TRUE, pane.mode, tabList, t, ~HasTabId(t),
                                      Len(injected))
            /\ IF HasTabId(t)
               THEN /\ calls' = [calls EXCEPT ![i].stage = "script",
                                              ![i].tabId = t[1].id[1],
                                              ![i].url = UrlOrEmpty(t[1])]
                    /\ injected' = Append(injected, t[1].id[1])
                    /\ UNCHANGED <<pane, shown>>
               ELSE /\ Failed(i, "NoTab")
                    /\ UNCHANGED injected
    /\ UNCHANGED <<tabList, steps, chromeStorage, memoryCache, requestCacheIdle,
                   notRequest, scraped>>

\* executeScript rejects for one of the calls.
ScriptRejects ==
    /\ pane.phase = "open"
    /\ \E i \in 1..Len(calls), cause \in Causes \ {"NoTab"} :
        /\ calls[i].stage = "script"
        /\ Failed(i, cause)
    /\ UNCHANGED <<tabList, injected, resolved, steps, chromeStorage, memoryCache,
                   requestCacheIdle, notRequest, scraped>>

\* executeScript resolves for one of the calls with results[0]?.result ||
\* []: an empty list is reported as an error, another list is shown and
\* cached; updateCacheStatus sets hasCache, and loading ends.
ScriptResolves ==
    /\ pane.phase = "open"
    /\ \E i \in 1..Len(calls), fresh \in ScriptResults,
          cur \in {CurrentTabUrl(pane.mode, tabList)},
          order \in Orders(OwnKeys(chromeStorage)) :
        /\ calls[i].stage = "script"
        /\ scraped' = scraped \cup {[data |-> fresh, url |-> calls[i].url]}
        /\ \E w \in {IF NonEmpty(fresh)
                     THEN CacheSet(memoryCache[pane.mode], chromeStorage, cacheOptions,
                                   clock, fresh, cur)
                     ELSE [mem |-> memoryCache[pane.mode], store |-> chromeStorage]} :
           \E h \in {CacheGet(w.mem, w.store, cacheOptions, clock, Null, cur,
                              IF NonEmpty(fresh) THEN SomeOrder(OwnKeys(w.store))
                              ELSE order)} :
              /\ pane' = Returned([pane EXCEPT
                                      !.error = IF NonEmpty(fresh) THEN @
                                                ELSE NoTransactionsFound,
                                      !.transactions = IF NonEmpty(fresh) THEN fresh
                                                       ELSE @,
                                      !.hasCache = h.found,
                                      !.loading = FALSE], calls[i].detach)
              /\ memoryCache' = [memoryCache EXCEPT ![pane.mode] = h.mem]
              /\ chromeStorage' = w.store
        /\ calls' = IF calls[i].detach THEN <<>> ELSE WithoutCall(calls, i)
    /\ UNCHANGED <<tabList, injected, resolved, shown, steps, requestCacheIdle,
                   notRequest>>

\* The tabs of the browser change.
TabsChange ==
    /\ steps < MaxClicks
    /\ pane.phase = "open"
    /\ \E l \in TabLists \ {tabList} : tabList' = l
    /\ steps' = steps + 1
    /\ UNCHANGED <<pane, calls, injected, resolved, shown, chromeStorage, memoryCache,
                   requestCacheIdle, notRequest, scraped>>

RequestNext ==
    \/ ClickExtract \/ ClickForceRefresh \/ ToggleCacheControls \/ ClickDetach
    \/ TabsResolve \/ ScriptRejects \/ ScriptResolves \/ TabsChange

SpecRequest == RequestInit /\ [][RequestNext]_vars

\* The url of a tab names the application, or its title does.
UrlIndicates(t) ==
    Truthy(t.url) /\ (Includes(t.url[1], <<"p","a","y","t","r","a","c","k","e","r">>) \/ Includes(t.url[1], <<"a","p","p",".">>))
TitleIndicates(t) ==
    Truthy(t.title) /\ Includes(toLowerCase(t.title[1]), <<"p","a","y","t","r","a","c","k","e","r">>)

\* The tab a resolution is to settle on, Null for none: in the popup the
\* active tab of the current window; in a detached window the first tab
\* whose url or title indicates the application, else the last tab whose
\* url is not a chrome-extension:// url.
TargetTab(mode, allTabs) ==
    IF mode = "popup"
    THEN FindFirst(allTabs, LAMBDA t : t.active /\ t.currentWindow)
    ELSE IF \E i \in 1..Len(allTabs) : UrlIndicates(allTabs[i]) \/ TitleIndicates(allTabs[i])
    THEN FindFirst(allTabs, LAMBDA t : UrlIndicates(t) \/ TitleIndicates(t))
    ELSE LastOf(SelectSeq(allTabs, LAMBDA t : Truthy(t.url) /\ ~StartsWith(t.url[1], <<"c","h","r","o","m","e","-","e","x","t","e","n","s","i","o","n",":","/","/">>)))

\* C16: extraction targets, in the popup, the active tab of the current
\* window and, in a detached window, the first tab whose url or title
\* indicates the application, else the last tab whose url is not a
\* chrome-extension:// url; when no tab with an id results it fails with
\* the no-target-tab error and injects no script.
C16_TabResolution ==
    resolved.done =>
        IF HasTabId(TargetTab(resolved.mode, resolved.allTabs))
        THEN /\ ~resolved.threw
             /\ Len(injected) = resolved.before + 1
             /\ injected[Len(injected)] = TargetTab(resolved.mode, resolved.allTabs)[1].id[1]
        ELSE /\ resolved.threw
             /\ Len(injected) = resolved.before
             /\ shown["NoTab"] # Null

\* C17: a failure for no target tab, a failure for a missing permission and
\* any other failure are shown with different error messages.
C17_SpecificMessages ==
    \A c \in Causes, d \in Causes :
        (c # d /\ shown[c] # Null /\ shown[d] # Null) => shown[c] # shown[d]

\* C18: at most one extraction call of the surface is in flight.
C18_OneInFlight == Len(calls) <= 1

----------------------------------------------------------------------------
(* The utilities of lib/utils *)

\* A transaction as the list of the surface holds it.
Row(customer, date, amount, transactionId) ==
    [customer |-> customer, date |-> date, amount |-> amount,
     transactionId |-> transactionId]

\* filterTransactions without the date among the fields searched.
WithoutDate(transactions, searchTerm) ==
    IF Trim(searchTerm) = <<>> THEN transactions
    ELSE SelectSeq(transactions,
            LAMBDA tx : \/ Includes(toLowerCase(tx.customer), toLowerCase(searchTerm))
                        \/ Includes(toLowerCase(tx.amount), toLowerCase(searchTerm))
                        \/ Includes(toLowerCase(tx.transactionId), toLowerCase(searchTerm)))
filterTransactions(transactions, searchTerm) ==
    IF Trim(searchTerm) = <<>> THEN transactions
    ELSE SelectSeq(transactions,
            LAMBDA tx : \/ Includes(toLowerCase(tx.customer), toLowerCase(searchTerm))
                        \/ Includes(toLowerCase(tx.amount), toLowerCase(searchTerm))
                        \/ Includes(toLowerCase(tx.transactionId), toLowerCase(searchTerm))
                        \/ Includes(toLowerCase(tx.date), toLowerCase(searchTerm)))

\* String.prototype.split(c) for a one-character separator.
RECURSIVE Split(_, _)
Split(s, c) ==
    IF \A i \in 1..Len(s) : s[i] # c THEN <<s>>
    ELSE <<SubSeq(s, 1, MinOf({i \in 1..Len(s) : s[i] = c}) - 1)>>
         \o Split(SubSeq(s, MinOf({i \in 1..Len(s) : s[i] = c}) + 1, Len(s)), c)

\* String.prototype.charAt(0)
FirstChar(s) == IF s = <<>> THEN <<>> ELSE <<s[1]>>

MemberIndividual == <<"M","e","m","b","e","r",","," ","I","n","d","i","v","i","d","u","a","l">>

\* The name formatted from its parts: first part, initial of the last part.
Abbreviated(name, parts) ==
    IF Len(parts) >= 2
    THEN parts[1] \o <<" ">> \o FirstChar(parts[Len(parts)]) \o <<".">>
    ELSE name

formatCustomerName(name) ==
    IF \/ Includes(toLowerCase(name), <<"m","e","m","b","e","r">>)
       \/ Includes(toLowerCase(name), <<"i","n","d","i","v","i","d","u","a","l">>)
    THEN MemberIndividual
    ELSE Abbreviated(name, Split(Trim(name), " "))

\* formatName of the surface: the call hands four arguments to a function of
\* one parameter, which receives the first.
formatName(name, privacyMode, cloverMode, forExport) == formatCustomerName(name)

----------------------------------------------------------------------------
(* Utility harness: one call of a utility on arguments drawn from samples *)

\* The cross mark that starts every message of handleError, written X.
CrossMark == <<"X"," ">>
NoTabText == CrossMark \o <<"N","o"," ","P","a","y","T","r","a","c","k","e","r"," ","t","a","b"," ","f","o","u","n","d","."," ","P","l","e","a","s","e"," ","o","p","e","n"," ","P","a","y","T","r","a","c","k","e","r"," ","f","i","r","s","t",".">>
PermissionText == CrossMark \o <<"P","e","r","m","i","s","s","i","o","n"," ","d","e","n","i","e","d","."," ","P","l","e","a","s","e"," ","c","h","e","c","k"," ","e","x","t","e","n","s","i","o","n"," ","p","e","r","m","i","s","s","i","o","n","s",".">>
NetworkText == CrossMark \o <<"N","e","t","w","o","r","k"," ","e","r","r","o","r","."," ","P","l","e","a","s","e"," ","c","h","e","c","k"," ","y","o","u","r"," ","c","o","n","n","e","c","t","i","o","n",".">>
GenericText(context) == CrossMark \o <<"E","r","r","o","r"," ","i","n"," ">> \o context \o <<"."," ","P","l","e","a","s","e"," ","t","r","y"," ","a","g","a","i","n",".">>

\* error.message?.includes(word): false for an error without a message.
MessageIncludes(message, word) == message # Null /\ Includes(message[1], word)

\* handleError with the test for 'permission' before the test for 'tab'.
PermissionFirst(message, context) ==
    IF MessageIncludes(message, <<"p","e","r","m","i","s","s","i","o","n">>) THEN PermissionText
    ELSE IF MessageIncludes(message, <<"t","a","b">>) THEN NoTabText
    ELSE IF MessageIncludes(message, <<"n","e","t","w","o","r","k">>) \/ MessageIncludes(message, <<"f","e","t","c","h">>)
    THEN NetworkText
    ELSE GenericText(context)

\* handleError(error, context), message being error.message (Null when the
\* error has none).
handleError(message, context) ==
    IF MessageIncludes(message, <<"t","a","b">>) THEN NoTabText
    ELSE IF MessageIncludes(message, <<"p","e","r","m","i","s","s","i","o","n">>) THEN PermissionText
    ELSE IF MessageIncludes(message, <<"n","e","t","w","o","r","k">>) \/ MessageIncludes(message, <<"f","e","t","c","h">>)
    THEN NetworkText
    ELSE GenericText(context)

MaxRows == 3

JohnDoe == Row(<<"J","o","h","n"," ","D","o","e">>, <<"2","0","2","4","-","0","1","-","1","5">>, <<"$","1","0","0",".","0","0">>, <<"T","X","N","0","0","1">>)
JaneSmith == Row(<<"J","a","n","e"," ","S","m","i","t","h">>, <<"2","0","2","4","-","0","1","-","1","6">>, <<"$","2","0","0",".","0","0">>, <<"T","X","N","0","0","2">>)
BobJohnson == Row(<<"B","o","b"," ","J","o","h","n","s","o","n">>, <<"2","0","2","4","-","0","1","-","1","7">>, <<"$","5","0",".","0","0">>, <<"T","X","N","0","0","3">>)
SampleRows == {JohnDoe, JaneSmith, BobJohnson}

RowLists == UNION {[1..n -> SampleRows] : n \in 0..MaxRows}

FilterTerms ==
    { <<>>, <<" ">>, <<"J","o","h","n">>, <<"J","A","N","E">>, <<"$","2","0","0">>, <<"T","X","N","0","0","2">>, <<"0","1","-","1","7">>, <<"z","z","z">>,
      <<"j","o","h","n"," ">>, <<"n"," ","d">>, <<"O">> }

SampleNames ==
    { <<"J","o","h","n"," ","S","m","i","t","h">>, <<"M","a","r","y"," ","J","a","n","e"," ","W","a","t","s","o","n">>, <<"B","o","b">>, <<"C","l","o","v","e","r"," ","C","u","s","t","o","m","e","r">>, <<"C","l","o","v","e","r"," ","C",".">>,
      <<"R","e","g","u","l","a","r"," ","C","u","s","t","o","m","e","r">>, <<"M","e","m","b","e","r"," ","A","c","c","o","u","n","t">>, <<"I","n","d","i","v","i","d","u","a","l"," ","C","u","s","t","o","m","e","r">>, <<>>,
      <<" ","A","n","n"," "," ","L","e","e"," ">>, <<"M","E","M","B","E","R"," ","7">>, <<"A","l"," ","B">>, <<"R","e","m","e","m","b","e","r"," ","M","e">> }

UtilInit ==
    /\ CompressIdle
    /\ RepairIdle
    /\ ExtractIdle
    /\ CacheIdle
    /\ PageIdle
    /\ RequestIdle
    /\ FaultIdle
    /\ UtilIdle
    /\ PerfIdle

notUtil == <<varsCompress, varsRepair, varsExtract, varsCache, varsPage, varsRequest,
             varsFault, varsPerf>>

ChooseFilter ==
    /\ upc = "idle"
    /\ \E list \in RowLists, term \in FilterTerms :
          uin' = [op |-> "filter", list |-> list, term |-> term]
    /\ upc' = "ready"
    /\ UNCHANGED <<uout, notUtil>>

ApplyFilter ==
    /\ upc = "ready"
    /\ uin.op = "filter"
    /\ uout' = filterTransactions(uin.list, uin.term)
    /\ upc' = "done"
    /\ UNCHANGED <<uin, notUtil>>

ChooseName ==
    /\ upc = "idle"
    /\ \E name \in SampleNames, privacyMode \in BOOLEAN, cloverMode \in BOOLEAN,
          forExport \in BOOLEAN :
          uin' = [op |-> "format", name |-> name, privacyMode |-> privacyMode,
                  cloverMode |-> cloverMode, forExport |-> forExport]
    /\ upc' = "ready"
    /\ UNCHANGED <<uout, notUtil>>

FormatName ==
    /\ upc = "ready"
    /\ uin.op = "format"
    /\ uout' = formatName(uin.name, uin.privacyMode, uin.cloverMode, uin.forExport)
    /\ upc' = "done"
    /\ UNCHANGED <<uin, notUtil>>

\* The messages of the errors handed to handleError (Null: an error
\* without a message) and the contexts.
ErrorMessages ==
    { Null, Some(<<"N","o"," ","t","a","b"," ","f","o","u","n","d">>), Some(<<"p","e","r","m","i","s","s","i","o","n"," ","d","e","n","i","e","d"," ","f","o","r"," ","t","h","i","s"," ","a","c","t","i","o","n">>),
      Some(<<"n","e","t","w","o","r","k"," ","c","o","n","n","e","c","t","i","o","n"," ","f","a","i","l","e","d">>), Some(<<"S","o","m","e","t","h","i","n","g"," ","w","e","n","t"," ","w","r","o","n","g">>),
      Some(<<"F","a","i","l","e","d"," ","t","o"," ","f","e","t","c","h">>), Some(<<"p","e","r","m","i","s","s","i","o","n"," ","f","o","r"," ","t","a","b">>), Some(<<"t","a","b"," ","p","e","r","m","i","s","s","i","o","n">>),
      Some(<<"n","e","t","w","o","r","k"," ","p","e","r","m","i","s","s","i","o","n">>), Some(<<"f","e","t","c","h",":"," ","n","o"," ","t","a","b">>), Some(<<"d","a","t","a","b","a","s","e"," ","n","e","t","w","o","r","k">>),
      Some(<<"T","a","b"," ","c","l","o","s","e","d">>), Some(<<"P","e","r","m","i","s","s","i","o","n"," ","N","e","t","w","o","r","k">>), Some(<<>>) }
ErrorContexts == { <<"t","e","s","t"," ","c","o","n","t","e","x","t">>, <<"r","e","f","r","e","s","h">> }

ChooseError ==
    /\ upc = "idle"
    /\ \E message \in ErrorMessages, context \in ErrorContexts :
          uin' = [op |-> "error", message |-> message, context |-> context]
    /\ upc' = "ready"
    /\ UNCHANGED <<uout, notUtil>>

HandleError ==
    /\ upc = "ready"
    /\ uin.op = "error"
    /\ uout' = handleError(uin.message, uin.context)
    /\ upc' = "done"
    /\ UNCHANGED <<uin, notUtil>>

UtilNext ==
    \/ ChooseFilter
    \/ ApplyFilter
    \/ ChooseName
    \/ FormatName
    \/ ChooseError
    \/ HandleError

SpecUtils == UtilInit /\ [][UtilNext]_vars

\* Two characters that are the same letter, whatever their case.
SameLetter(a, b) ==
    \/ a = b
    \/ a \in Upper /\ b = LowerChars[IndexOf(a, UpperChars)]
    \/ b \in Upper /\ a = LowerChars[IndexOf(b, UpperChars)]

\* field contains term case-insensitively.
ContainsLoosely(field, term) ==
    \E off \in 0..(Len(field) - Len(term)) :
        \A k \in 1..Len(term) : SameLetter(field[off + k], term[k])

Matches(tx, term) ==
    \/ ContainsLoosely(tx.customer, term)
    \/ ContainsLoosely(tx.amount, term)
    \/ ContainsLoosely(tx.transactionId, term)
    \/ ContainsLoosely(tx.date, term)

Hits(list, term) == {i \in 1..Len(list) : Matches(list[i], term)}

\* out is the elements of list at the positions of hits, in their order.
KeptInOrder(list, hits, out) ==
    /\ Len(out) = Cardinality(hits)
    /\ \A i \in hits : out[Cardinality({j \in hits : j <= i})] = list[i]

Blank(term) == \A i \in 1..Len(term) : term[i] \in Whitespace

\* C23: filterTransactions returns, in the original relative order, exactly
\* the transactions of which customer, amount, transactionId or date
\* contains the term case-insensitively; an empty or whitespace-only term
\* returns the whole list.
C23_FilterExact ==
    (upc = "done" /\ uin.op = "filter")
        => IF Blank(uin.term) THEN uout = uin.list
           ELSE KeptInOrder(uin.list, Hits(uin.list, uin.term), uout)

\* The test of the module: 'John' keeps John Doe and Bob Johnson, in order.
C23_JohnKeepsTwo ==
    /\ upc = "done"
    /\ uin.op = "filter"
    /\ uin.list = <<JohnDoe, JaneSmith, BobJohnson>>
    /\ uin.term = <<"J","o","h","n">>
    /\ uout = <<JohnDoe, BobJohnson>>

\* The words of a name: its maximal runs of characters other than spaces.
Words(name) == SelectSeq(Split(name, " "), LAMBDA w : w # <<>>)

CloverNames == { <<"C","l","o","v","e","r"," ","C","u","s","t","o","m","e","r">>, <<"C","l","o","v","e","r"," ","C",".">> }

CloverApplies(in) == in.cloverMode /\ in.forExport /\ in.name \in CloverNames

NamesMember(name) ==
    \/ ContainsLoosely(name, <<"m","e","m","b","e","r">>)
    \/ ContainsLoosely(name, <<"i","n","d","i","v","i","d","u","a","l">>)

\* What privacy mode makes of a name.
Private(name, words) ==
    IF NamesMember(name) THEN MemberIndividual
    ELSE IF Len(words) >= 2
         THEN words[1] \o <<" ">> \o <<words[Len(words)][1]>> \o <<".">>
         ELSE name

\* C24: with privacyMode off and no clover replacement applying the name is
\* returned unchanged; with privacyMode on a name of two or more words
\* becomes the first word and the initial of the last, a single word is
\* unchanged and a name containing 'member' or 'individual' becomes
\* 'Member, Individual'; with cloverMode on and forExport true
\* 'Clover Customer' and 'Clover C.' become 'Member, Individual'.
C24_FormatByMode ==
    (upc = "done" /\ uin.op = "format")
        => /\ (~uin.privacyMode /\ ~CloverApplies(uin)) => uout = uin.name
           /\ (uin.privacyMode /\ ~CloverApplies(uin))
                 => uout = Private(uin.name, Words(uin.name))
           /\ CloverApplies(uin) => uout = MemberIndividual

----------------------------------------------------------------------------
(* The container-wide scan *)

\* The href scan and the text methods both fail for the container, or the
\* container has no anchor element.
MethodsFail(container) ==
    \/ NodesOfKind(container, "anchor") = <<>>
    \/ /\ NodesOfKind(container, "anchor") # <<>>
       /\ HrefId(NodesOfKind(container, "anchor")[1]) = Null
       /\ TextMethodsId(NodesOfKind(container, "anchor")[1]) = Null

\* The first 13-character [A-Z0-9] run of text without a run of six, or N/A.
ScannedId(text) ==
    IF EmbeddedStarts(text) = {} THEN NotAvailable
    ELSE Slice(text, MinOf(EmbeddedStarts(text)), MinOf(EmbeddedStarts(text)) + 12)

\* C26: whenever the href scan and the text methods both fail for a
\* container, also when it has no anchor element, its transactionId is the
\* first 13-character [A-Z0-9] run of its full text that has no run of six
\* or more equal characters, and 'N/A' only when there is none.
C26_FullTextScan ==
    xpc = "done"
        => \A i \in 1..Len(page) :
              MethodsFail(page[i])
                 => extracted[i].transactionId = ScannedId(ContainerText(page[i]))

----------------------------------------------------------------------------
(* The state a surface starts with *)

\* The snapshot of a mode among the sync keys.
SnapshotOf(sync, mode) ==
    IF mode = "popup" THEN sync.popupModeData ELSE sync.detachedModeData

OtherMode(kind) == IF kind = "popup" THEN "detached" ELSE "popup"

\* The snapshot of the other mode counts: lastSyncMode is not the kind of
\* the surface and the list of that snapshot is not empty.
ForeignCounts(kind, sync) ==
    /\ sync.lastSyncMode # kind
    /\ SnapshotOf(sync, OtherMode(kind)) # Null
    /\ NonEmpty(SnapshotOf(sync, OtherMode(kind))[1].view.transactions)

\* view is what the generic cache gives a surface whose settings give v:
\* the list of the cache when it has one, else the empty list.
FromCacheOrEmpty(view, v, r) ==
    view = IF r.found /\ NonEmpty(r.data) THEN [v EXCEPT !.transactions = r.data] ELSE v

\* view is the state the priority selects for a surface of the kind.
StartsFrom(kind, sync, view, v, store, opts, now) ==
    IF ForeignCounts(kind, sync) THEN view = SnapshotOf(sync, OtherMode(kind))[1].view
    ELSE IF SnapshotOf(sync, kind) # Null THEN view = SnapshotOf(sync, kind)[1].view
    ELSE \E order \in Orders(OwnKeys(store)) :
            FromCacheOrEmpty(view, v, CacheGet(<<>>, store, opts, now, Null, DefaultUrl, order))

\* C27: a surface starts with the snapshot of the other mode when
\* lastSyncMode is not its own kind and that snapshot has a non-empty list,
\* else with the snapshot of its own mode, else with the list of the cache,
\* else with the empty list; it starts whatever the other surfaces do.
C27_StartupPriority ==
    [][\A w \in WindowIds :
          (windows[w].phase = "loading" /\ windows'[w].phase = "open")
             => StartsFrom(windows[w].kind, syncStorage, windows'[w].view,
                           View(EmptyList, <<>>,
                                getSetting(localSettings, "privacyMode", FALSE),
                                getSetting(localSettings, "cloverMode", FALSE)),
                           chromeStorage, cacheOptions, clock)]_vars

\* A detached window has started with the snapshot the popup left, and a
\* popup with its own.
C27_BothStarted ==
    \E w1, w2 \in WindowIds :
        /\ windows[w1].kind = "detached"
        /\ windows[w1].phase = "open"
        /\ NonEmpty(windows[w1].view.transactions)
        /\ windows[w2].kind = "popup"
        /\ windows[w2].phase = "open"
        /\ syncStorage.popupModeData # Null
        /\ windows[w2].view = syncStorage.popupModeData[1].view

----------------------------------------------------------------------------
(* Cache hits of refresh *)

\* A step in which refresh shows the list of the cache and returns: a
\* click that starts no call and leaves the panel and the tabs alone.
CacheHitShown ==
    /\ pane.phase = "open"
    /\ pane'.phase = "open"
    /\ steps' = steps + 1
    /\ calls' = calls
    /\ tabList' = tabList
    /\ pane'.showCacheControls = pane.showCacheControls

\* list was extracted from the page of the tab.
ScrapedFrom(list, tab) ==
    tab # Null /\ [data |-> list, url |-> UrlOrEmpty(tab[1])] \in scraped

\* C29: the list that refresh shows from the cache was extracted from the
\* page the surface targets now: after the user has gone to another page,
\* Extract within the ttl does not show the list of the page before.
C29_HitScoped ==
    [][CacheHitShown
          => ScrapedFrom(pane'.transactions, ResolveTab(pane.mode = "detached", tabList))]_vars

----------------------------------------------------------------------------
(* The character-flooding strategy without a candidate *)

\* The lengths of the middle segments the strategy tries.
MiddleLengths == {Len(commonMiddles[i]) : i \in 1..Len(commonMiddles)}

\* raw has the character-flooding shape (a prefix of 1 to 3 characters, one
\* character 11 or more times, a suffix of 7 to 10 characters) and no
\* middle segment has the length its prefix and suffix leave.
FloodWithoutMiddle(raw, m) ==
    /\ m # Null
    /\ (IdLength - Len(m[1].prefix) - Len(m[1].suffix)) \notin MiddleLengths

\* C30: for a raw text of the character-flooding shape for which no middle
\* segment has length 13 - len(prefix) - len(suffix), repair returns null.
C30_FloodFailsClosed ==
    (rpc = "done" /\ FloodWithoutMiddle(rawId, FloodMatch(rawId, 1, 3, 7, 10)))
        => fixedId = Null

----------------------------------------------------------------------------
(* The run-length shape *)

\* raw is a prefix of 3 to 6 characters, one character 11 or more times and
\* a suffix of 3 to 6 characters, all of [A-Z0-9].
RunLengthShape(raw) ==
    /\ AllUpperAlnum(raw)
    /\ \E p \in 3..6, s \in 3..6 :
          /\ Len(raw) - p - s >= 11
          /\ \A i \in (p + 1)..(Len(raw) - s) : raw[i] = raw[p + 1]

\* C31: for every raw text of the run-length shape repair returns null or
\* 13 characters of [A-Z0-9], also when the character before the repeated
\* one lies outside [A-Z0-9] (repeated '0' or 'A').
C31_RunLengthResult ==
    (rpc = "done" /\ RunLengthShape(rawId))
        => \/ fixedId = Null
           \/ Len(fixedId[1]) = 13 /\ AllUpperAlnum(fixedId[1])

\* A text of the shape whose rebuilt text would be 13 long with the
\* character before '0' in it.
C31_ZeroRepeated ==
    /\ rpc = "done"
    /\ RunLengthShape(rawId)
    /\ rawId = <<"A","B","C","D","E","F">> \o Repeat("0", 11) \o <<"Q","R","S","T","U","V">>
    /\ fixedId = Null

----------------------------------------------------------------------------
(* The order of the identifier methods *)

\* The positions of text at which 13 characters of [A-Z0-9] start.
RunStarts(text) ==
    {i \in 1..(Len(text) - 12) : AllUpperAlnum(Slice(text, i, i + 12))}

\* The href of the anchor as a string.
HrefOf(anchor) == IF anchor.href = Null THEN <<>> ELSE anchor.href[1]

\* An optional text, trimmed.
Trimmed(t) == IF t = Null THEN Null ELSE Some(Trim(t[1]))

\* The first of the attributes data-id, id and value that is not empty.
AttributeText(anchor) ==
    IF Truthy(anchor.dataId) THEN anchor.dataId
    ELSE IF Truthy(anchor.id) THEN anchor.id
    ELSE anchor.value

\* What a text yields: itself when it is 13 characters of [A-Z0-9], without
\* the repair; else what the repair makes of it.
Yield(t) ==
    IF ~Truthy(t) THEN Null
    ELSE IF Len(t[1]) = 13 /\ AllUpperAlnum(t[1]) THEN t
    ELSE fixCorruptedTransactionId(t[1])

\* The identifier the order gives for a container with an anchor, as far
\* as the href and the texts decide: the run of the href, else what the
\* first text that yields one yields.
ByOrder(id, anchor, texts) ==
    IF RunStarts(HrefOf(anchor)) # {}
    THEN id = Slice(HrefOf(anchor), MinOf(RunStarts(HrefOf(anchor))),
                    MinOf(RunStarts(HrefOf(anchor))) + 12)
    ELSE \A i \in 1..Len(texts) :
            (Yield(texts[i]) # Null /\ \A j \in 1..(i - 1) : Yield(texts[j]) = Null)
               => id = Yield(texts[i])[1]

\* The identifier of every container with an anchor follows the order of
\* the texts that Texts gives for its anchor.
OrderHolds(Texts(_)) ==
    xpc = "done"
        => \A i \in 1..Len(page) :
              NodesOfKind(page[i], "anchor") # <<>>
                 => ByOrder(extracted[i].transactionId,
                            NodesOfKind(page[i], "anchor")[1],
                            Texts(NodesOfKind(page[i], "anchor")[1]))

\* C32 as stated: a 13-character run of the href is the identifier
\* whatever the texts hold; otherwise the text content, the tree-walk
\* concatenation of the text nodes and the attributes data-id, id, value
\* are tried in this order, a clean 13-character token is taken without
\* the repair, and the first text that yields an identifier decides.
C32_ThreeTexts ==
    OrderHolds(LAMBDA a : << Some(Trim(a.text)), Some(Trim(a.text)), AttributeText(a) >>)

\* C32, amended: the order of the texts is text content, inner text,
\* tree-walk concatenation, attributes.
C32_FourTexts ==
    OrderHolds(LAMBDA a : << Some(Trim(a.text)), Trimmed(a.innerText), Some(Trim(a.text)),
                             AttributeText(a) >>)

\* An anchor without a usable href whose text is a clean token with a run
\* of six, which the repair would reject, has given the identifier.
C32_CleanTokenTaken ==
    /\ xpc = "done"
    /\ Len(page) >= 1
    /\ NodesOfKind(page[1], "anchor") # <<>>
    /\ NodesOfKind(page[1], "anchor")[1].href = Null
    /\ NodesOfKind(page[1], "anchor")[1].text = <<"A","A","A","A","A","A","1","2","3","4","5","6","7">>
    /\ extracted[1].transactionId = <<"A","A","A","A","A","A","1","2","3","4","5","6","7">>

\* An anchor whose text yields nothing, whose inner text is one clean
\* token and whose data-id is another has given the token of the inner
\* text.
C32_InnerTextDecides ==
    /\ xpc = "done"
    /\ Len(page) >= 1
    /\ NodesOfKind(page[1], "anchor") # <<>>
    /\ RunStarts(HrefOf(NodesOfKind(page[1], "anchor")[1])) = {}
    /\ Yield(Some(Trim(NodesOfKind(page[1], "anchor")[1].text))) = Null
    /\ NodesOfKind(page[1], "anchor")[1].innerText = Some(EEP86556NRJ4C)
    /\ NodesOfKind(page[1], "anchor")[1].dataId = Some(<<"B","C","6","1","C","Z","C","M","F","P","E","G","G">>)
    /\ extracted[1].transactionId = EEP86556NRJ4C

----------------------------------------------------------------------------
(* The caller of get and the object it was given *)

\* An entry with another data object in place of its own.
WithData(entry, data) ==
    JObj([i \in 1..Len(entry.kids) |->
            IF entry.kids[i].k = <<"d","a","t","a">> THEN Field(<<"d","a","t","a">>, data) ELSE entry.kids[i]])

\* list.pop() on a list.
Popped(list) == JArr(SubSeq(list.kids, 1, Len(list.kids) - 1))

\* The memory tier after the data object of the entry of key has lost its
\* last element.
PoppedIn(mem, key) ==
    [i \in 1..Len(mem) |->
        IF mem[i].key = key
        THEN Item(key, WithData(mem[i].entry, Popped(Prop(mem[i].entry, <<"d","a","t","a">>))), mem[i].at)
        ELSE mem[i]]

\* The caller of the last get removes the last element of the list it was
\* given: the list is the data object of the memory entry that get
\* returned (return entry.data).
Mutate ==
    /\ last.op = "get"
    /\ last.found
    /\ last.ref.kind = "entry"
    /\ last.data.t = "arr"
    /\ last.data.kids # <<>>
    /\ memoryCache' = [memoryCache EXCEPT
                          ![last.surface] = PoppedIn(memoryCache[last.surface], last.ref.key)]
    /\ last' = Operation("mutate", last.surface, last.url, last.currentUrl,
                         Popped(last.data), last.ref, FALSE, "none", clock, FALSE,
                         JUndef, NoObject)
    /\ UNCHANGED <<clock, chromeStorage, cacheOptions, steps, notCache>>

AliasNext == Set \/ Get \/ Mutate

\* Surfaces that write and read the cache and change the lists they read.
SpecAlias == CacheInit /\ [][AliasNext]_vars

\* What get(url) returns on surface s, the storage enumerating its keys in
\* the given order: whether it found data, and the data.
GetReturns(mem, store, opts, now, c, order) ==
    [found |-> CacheGet(mem, store, opts, now, c.url, c.currentUrl, order).found,
     data |-> CacheGet(mem, store, opts, now, c.url, c.currentUrl, order).data]

\* C33: the value get returns is not aliased with the entry of the store:
\* when the caller changes a list that get returned, every get on the same
\* store returns afterwards what it would have returned before.
C33_GetNotAliased ==
    [][last'.op = "mutate"
          => \A c \in UrlChoices, order \in Orders(OwnKeys(chromeStorage)) :
                GetReturns(memoryCache'[last.surface], chromeStorage', cacheOptions, clock', c, order)
                    = GetReturns(memoryCache[last.surface], chromeStorage, cacheOptions, clock, c, order)]_vars

----------------------------------------------------------------------------
(* The tab of the extension is no target *)

\* Whether the url of a tab starts with chrome-extension://.
OwnPage(tab) ==
    /\ tab.url # Null
    /\ Len(tab.url[1]) >= 19
    /\ SubSeq(tab.url[1], 1, 19) = <<"c","h","r","o","m","e","-","e","x","t","e","n","s","i","o","n",":","/","/">>

\* C34: in a detached window the tab that the script is injected into is
\* never a page of the extension, by the match of url and title as by the
\* fallback to the last regular tab.
C34_NeverOwnPage ==
    (resolved.done /\ resolved.mode = "detached" /\ ~resolved.threw)
        => ~OwnPage(resolved.tab[1])

----------------------------------------------------------------------------
(* Writing the same content twice *)

\* The storage keys, other than the latest key, written for data and url.
KeysFor(store, url, data) ==
    {k \in OwnKeys(store) \ {LatestKey} : store[k].url = url /\ store[k].data = data}

\* C35: after set(d, u) on a surface that holds an earlier set(d, u), the
\* memory tier holds one entry for (u, d), with the timestamp of the later
\* call, and the storage holds one url-specific key for it.
C35_OneSlot ==
    (last.op = "set" /\ last.url # Null /\ last.found)
        => /\ Cardinality(EntriesFor(memoryCache[last.surface], last.currentUrl, last.data)) = 1
           /\ \A i \in EntriesFor(memoryCache[last.surface], last.currentUrl, last.data) :
                 Prop(memoryCache[last.surface][i].entry, <<"t","i","m","e","s","t","a","m","p">>) = JNum(TimeDigits(clock))
           /\ Cardinality(KeysFor(chromeStorage, last.currentUrl, last.data)) = 1

\* The popup has written the list of Al for one url a second time, later.
C35_WrittenTwice ==
    /\ last.op = "set"
    /\ last.surface = "popup"
    /\ last.url = Some(UrlA)
    /\ last.data = DataA
    /\ last.found
    /\ clock > StartTime
    /\ Len(memoryCache["popup"]) = 1

----------------------------------------------------------------------------
(* The message of an error *)

\* The message of the error handled holds the word, letter for letter.
Holds(word) ==
    /\ uin.message # Null
    /\ \E off \in 0..(Len(uin.message[1]) - Len(word)) :
          \A i \in 1..Len(word) : uin.message[1][off + i] = word[i]

\* C36: handleError answers by the message of the error in a fixed
\* priority: the no-PayTracker-tab message when it holds 'tab'; else the
\* permission-denied message when it holds 'permission'; else the network
\* message when it holds 'network' or 'fetch'; else the generic message
\* that names the context.
C36_ErrorPriority ==
    (upc = "done" /\ uin.op = "error")
        => /\ Holds(<<"t","a","b">>) => uout = <<"X"," ","N","o"," ","P","a","y","T","r","a","c","k","e","r"," ","t","a","b"," ","f","o","u","n","d","."," ","P","l","e","a","s","e"," ","o","p","e","n"," ","P","a","y","T","r","a","c","k","e","r"," ","f","i","r","s","t",".">>
           /\ (~Holds(<<"t","a","b">>) /\ Holds(<<"p","e","r","m","i","s","s","i","o","n">>))
                 => uout = <<"X"," ","P","e","r","m","i","s","s","i","o","n"," ","d","e","n","i","e","d","."," ","P","l","e","a","s","e"," ","c","h","e","c","k"," ","e","x","t","e","n","s","i","o","n"," ","p","e","r","m","i","s","s","i","o","n","s",".">>
           /\ (~Holds(<<"t","a","b">>) /\ ~Holds(<<"p","e","r","m","i","s","s","i","o","n">>) /\ (Holds(<<"n","e","t","w","o","r","k">>) \/ Holds(<<"f","e","t","c","h">>)))
                 => uout = <<"X"," ","N","e","t","w","o","r","k"," ","e","r","r","o","r","."," ","P","l","e","a","s","e"," ","c","h","e","c","k"," ","y","o","u","r"," ","c","o","n","n","e","c","t","i","o","n",".">>
           /\ (~Holds(<<"t","a","b">>) /\ ~Holds(<<"p","e","r","m","i","s","s","i","o","n">>) /\ ~Holds(<<"n","e","t","w","o","r","k">>) /\ ~Holds(<<"f","e","t","c","h">>))
                 => uout = <<"X"," ","E","r","r","o","r"," ","i","n"," ">> \o uin.context \o <<"."," ","P","l","e","a","s","e"," ","t","r","y"," ","a","g","a","i","n",".">>

\* An error whose message holds 'permission' before 'tab' got the
\* no-PayTracker-tab message.
C36_TabBeforePermission ==
    /\ upc = "done"
    /\ uin.op = "error"
    /\ uin.message = Some(<<"p","e","r","m","i","s","s","i","o","n"," ","f","o","r"," ","t","a","b">>)
    /\ uout = NoTabText

----------------------------------------------------------------------------
(* debounce and throttle  (lib/utils) *)

\* The waits and limits, the milliseconds and the calls of a behaviour.
MaxWait == 2
MaxTime == 5
MaxCalls == 3
\* The arguments of the calls.
CallArgs == {"a", "b"}

\* A timer of the event loop: what it runs when due, and the number of
\* calls made when it was set.
Timer(kind, due, args, after) == [kind |-> kind, due |-> due, args |-> args, after |-> after]

\* A call of the debounced or throttled function, and an invocation of the
\* function wrapped: after is the number of calls made when it ran.
CallAt(at, args) == [at |-> at, args |-> args]
RunAt(at, args, after) == [at |-> at, args |-> args, after |-> after]

\* The timers that are due. The event loop runs a timer at the instant it
\* is due, before anything else that happens at that instant.
DueTimers == {t \in timers : t.due <= timeNow}

\* clearTimeout that leaves the timer set.
NotCleared(queue, handle) == queue

\* clearTimeout(handle): nothing for undefined and for a timer that ran.
clearTimeout(queue, handle) == IF handle = Null THEN queue ELSE queue \ {handle[1]}

\* setTimeout(() => func(...args), wait)
FuncTimer(now, delay, args, after) == Timer("func", now + delay, args, after)

\* The window timer with twice the limit.
DoubleWindowTimer(now, delay, after) == Timer("window", now + delay + delay, Null, after)

\* setTimeout(() => (inThrottle = false), limit)
WindowTimer(now, delay, after) == Timer("window", now + delay, Null, after)

notPerf == <<varsCompress, varsRepair, varsExtract, varsCache, varsPage, varsRequest,
             varsFault, varsUtil>>

\* debounce(func, wait) has been called with a wait.
DebounceInit ==
    /\ CompressIdle
    /\ RepairIdle
    /\ ExtractIdle
    /\ CacheIdle
    /\ PageIdle
    /\ RequestIdle
    /\ FaultIdle
    /\ UtilIdle
    /\ timeNow = 0
    /\ timers = {}
    /\ timeout = Null
    /\ inThrottle = FALSE
    /\ wait \in 1..MaxWait
    /\ limitMs = 0
    /\ made = <<>>
    /\ ran = <<>>

\* throttle(func, limit) has been called with a limit.
ThrottleInit ==
    /\ CompressIdle
    /\ RepairIdle
    /\ ExtractIdle
    /\ CacheIdle
    /\ PageIdle
    /\ RequestIdle
    /\ FaultIdle
    /\ UtilIdle
    /\ timeNow = 0
    /\ timers = {}
    /\ timeout = Null
    /\ inThrottle = FALSE
    /\ wait = 0
    /\ limitMs \in 1..MaxWait
    /\ made = <<>>
    /\ ran = <<>>

\* The debounced function is called: the timer of the call before is
\* cleared and a timer for func with the arguments is set.
DebouncedCall ==
    /\ Len(made) < MaxCalls
    /\ DueTimers = {}
    /\ \E args \in CallArgs :
        /\ timers' = clearTimeout(timers, timeout)
                        \cup {FuncTimer(timeNow, wait, Some(args), Len(made) + 1)}
        /\ timeout' = Some(FuncTimer(timeNow, wait, Some(args), Len(made) + 1))
        /\ made' = Append(made, CallAt(timeNow, args))
    /\ UNCHANGED <<timeNow, inThrottle, wait, limitMs, ran, notPerf>>

\* The throttled function is called: with inThrottle false func is called
\* with the arguments, inThrottle is set and a timer to reset it; with
\* inThrottle true nothing happens.
ThrottledCall ==
    /\ Len(made) < MaxCalls
    /\ DueTimers = {}
    /\ \E args \in CallArgs :
        /\ made' = Append(made, CallAt(timeNow, args))
        /\ IF ~inThrottle
           THEN /\ ran' = Append(ran, RunAt(timeNow, args, Len(made) + 1))
                /\ inThrottle' = TRUE
                /\ timers' = timers \cup {WindowTimer(timeNow, limitMs, Len(made) + 1)}
           ELSE UNCHANGED <<ran, inThrottle, timers>>
    /\ UNCHANGED <<timeNow, timeout, wait, limitMs, notPerf>>

\* A timer that is due runs: func with the arguments of its call, or the
\* reset of inThrottle.
TimerRuns ==
    /\ \E t \in DueTimers :
        /\ timers' = timers \ {t}
        /\ IF t.kind = "func"
           THEN /\ ran' = Append(ran, RunAt(timeNow, t.args[1], Len(made)))
                /\ UNCHANGED inThrottle
           ELSE /\ inThrottle' = FALSE
                /\ UNCHANGED ran
    /\ UNCHANGED <<timeNow, timeout, wait, limitMs, made, notPerf>>

\* A millisecond passes.
TimePasses ==
    /\ timeNow < MaxTime
    /\ DueTimers = {}
    /\ timeNow' = timeNow + 1
    /\ UNCHANGED <<timers, timeout, inThrottle, wait, limitMs, made, ran, notPerf>>

DebounceNext == DebouncedCall \/ TimerRuns \/ TimePasses
ThrottleNext == ThrottledCall \/ TimerRuns \/ TimePasses

SpecDebounce == DebounceInit /\ [][DebounceNext]_vars
SpecThrottle == ThrottleInit /\ [][ThrottleNext]_vars

\* The calls that end a burst: the last call made, and every call that the
\* next call follows by the wait or more.
EndsBurst(j) == j = Len(made) \/ made[j + 1].at - made[j].at >= wait

\* C37: of a burst of calls of the debounced function, each less than wait
\* ms after the one before, func runs for no call but the last, and for the
\* last it runs once, with the arguments of that call, wait ms after it.
C37_DebounceBurst ==
    wait > 0
        => /\ \A k \in 1..Len(ran) :
                 /\ ran[k].after \in 1..Len(made)
                 /\ EndsBurst(ran[k].after)
                 /\ ran[k].at = made[ran[k].after].at + wait
                 /\ ran[k].args = made[ran[k].after].args
           /\ \A k \in 1..Len(ran), l \in 1..Len(ran) :
                 ran[k].after = ran[l].after => k = l
           /\ \A j \in 1..Len(made) :
                 (\/ j < Len(made) /\ EndsBurst(j)
                  \/ j = Len(made) /\ timeNow > made[j].at + wait)
                    => \E k \in 1..Len(ran) : ran[k].after = j

\* Three calls, each a millisecond after the one before, with a wait of two
\* milliseconds: func has run once, two milliseconds after the third call,
\* with its arguments.
C37_BurstOfThree ==
    /\ wait = 2
    /\ Len(made) = 3
    /\ made[1] = CallAt(0, "a")
    /\ made[2] = CallAt(1, "a")
    /\ made[3] = CallAt(2, "b")
    /\ ran = << RunAt(4, "b", 3) >>

\* Whether the j-th call is made with no window open: every call before it
\* that opened a window was made the limit or more before.
RECURSIVE Opens(_)
Opens(j) ==
    \A i \in 1..(j - 1) : Opens(i) => made[j].at >= made[i].at + limitMs

\* C38: a call of the throttled function made when no window is open runs
\* func at once and opens a window of limit ms; a call made inside an open
\* window is dropped, neither queued nor run later; so func runs once per
\* window and again for the first call after the window has closed.
C38_ThrottleWindow ==
    limitMs > 0
        => /\ \A k \in 1..Len(ran) :
                 /\ ran[k].after \in 1..Len(made)
                 /\ Opens(ran[k].after)
                 /\ ran[k].at = made[ran[k].after].at
                 /\ ran[k].args = made[ran[k].after].args
           /\ \A k \in 1..Len(ran), l \in 1..Len(ran) :
                 ran[k].after = ran[l].after => k = l
           /\ \A j \in 1..Len(made) : Opens(j) => \E k \in 1..Len(ran) : ran[k].after = j

\* With a limit of two milliseconds, of three calls a millisecond apart the
\* first and the third have run func and the second was dropped.
C38_SecondDropped ==
    /\ limitMs = 2
    /\ timeNow = 5
    /\ Len(made) = 3
    /\ made[1] = CallAt(0, "a")
    /\ made[2] = CallAt(1, "b")
    /\ made[3] = CallAt(2, "b")
    /\ ran = << RunAt(0, "a", 1), RunAt(2, "b", 3) >>

====
